---- MODULE Spec2Model ----
(***************************************************************************)
(* Verification model of TrainFarm.                                        *)
(*                                                                         *)
(* Part I   FactoryAutomation.craft_material_dfs, the recursive crafting   *)
(*          resolver (src/src/core/factory_automation.py), with the OCR    *)
(*          scan of the requirements strip it decides on.                  *)
(* Part II  TrainDispatcher (src/src/core/train_dispatcher.py): the phrase *)
(*          matcher, the two status predicates and the dispatch loop.      *)
(* Part III TaskAutomation.run_full_workflow and main                      *)
(*          (src/task_automation.py): one workflow cycle and the polling   *)
(*          loop around it, with the dispatcher of Part II called in it.   *)
(* Part IV  TaskCardDetector.find_first_available_task                     *)
(*          (src/src/detectors/task_card_detector.py).                     *)
(* Part V   FreebieCollector.collect_freebies                              *)
(*          (src/src/core/freebie_collector.py).                           *)
(* Part VI  The readers: the phrase matcher, the OCR vote of _ocr_number   *)
(*          and the merge of quantity boxes (src/task_automation.py).      *)
(* Part VII The locator (src/src/detectors/template_matcher.py): scale     *)
(*          factor, find_template_on_screen and find_all_matches, and the  *)
(*          click points of material_scanner.py and task_automation.py.    *)
(* Part VIII Three procedures on their own: craft_in_factory               *)
(*          (src/resource_generator.py), the train loop of                 *)
(*          _dispatch_trains_for_material_generation                       *)
(*          (src/task_automation.py) and explore_recipe_tree               *)
(*          (src/crafting_tree_navigator.py).                              *)
(*                                                                         *)
(* The screen is the environment: every template lookup and every OCR read *)
(* is an input drawn afresh from a small set at the step that performs it. *)
(***************************************************************************)
EXTENDS Integers, Sequences, FiniteSets, TLC

VARIABLES
    stack,          \* active craft_material_dfs calls, outermost first
    ret,            \* value a returned child hands to its caller: "none" until read
    result,         \* craft_material: "idle", "running", "True", "False", "Raised"
    ended,          \* <<[f, value]>>: the call that just ended, as it ended, until
                    \* its caller has read the value; <<>> otherwise
    confirmButton,  \* self.confirm_button_x / _y (instance state)
    popup,          \* screen: the "not enough materials" popup is showing
    input           \* the last event handed to input injection

dfsVars == <<stack, ret, result, ended, confirmButton, popup, input>>

VARIABLES
    dpc,            \* dispatch_trains_for_task: where the call stands
    di,             \* i of for i in range(max_dispatches)
    success_count,  \* trains dispatched in this call
    attempt,        \* attempt of for attempt in range(3) in dispatch_train
    lastRead,       \* how the last status read came out
    basis,          \* lastRead at the time of the last click on Dispatch
    dinput,         \* the last event handed to input injection by the dispatcher
    dresult         \* "none" until dispatch_trains_for_task returns "True"/"False"

dispVars == <<dpc, di, success_count, attempt, lastRead, basis, dinput, dresult>>

VARIABLES
    wpc,            \* main and run_full_workflow: where the program stands
    cyc,            \* the locals of the running cycle and what it has done
    wresult,        \* what run_full_workflow returned: "none", "True", "False"
    uiTaskButton,   \* UIConfig.ELEMENTS["task_button"] x, y (ui_coordinates.json)
    available_operators, \* self.available_operators
    slept,          \* the last sleep of main
    winput,         \* the last event handed to input injection by the workflow
    wstop           \* why main ended: "" while it runs

wfVars == <<wpc, cyc, wresult, uiTaskButton, available_operators, slept, winput, wstop>>

VARIABLES
    cpc,            \* find_first_available_task: where the call stands
    scrolls_performed,
    cview,          \* the cards of the view inspected last, as classified
    cviews,         \* views inspected in this call
    cfallback,      \* the view inspected last came from the fixed positions   
    cresult,        \* the click position returned, NoPos for None
    cinput          \* the last event handed to input injection by the detector

cardVars == <<cpc, scrolls_performed, cview, cviews, cfallback, cresult, cinput>>

VARIABLES
    fpc,            \* collect_freebies: where the call stands
    fattempt,       \* attempt of for attempt in range(max_freebies)
    collected,      \* freebies clicked
    fraised,        \* fail-safe exceptions input injection raised in this call
    fswallowed,     \* of those, the ones an except clause ended
    fresult         \* -1 until the call returns collected

fbVars == <<fpc, fattempt, collected, fraised, fswallowed, fresult>>

VARIABLES
    rd,             \* the call of a reader in progress or done: its name, its
                    \* arguments and what it returned
    loc             \* the same for a call of the locator

callVars == <<rd, loc>>

VARIABLES
    cif,            \* ResourceGenerator.craft_in_factory: the active calls, what
                    \* the last one returned and the last input event
    gen,            \* _dispatch_trains_for_material_generation: its locals
    ert             \* CraftingTreeNavigator.explore_recipe_tree: the active
                    \* calls and recipe_stack

procVars == <<cif, gen, ert>>

vars == <<dfsVars, dispVars, wfVars, cardVars, fbVars, callVars, procVars>>

\* what an action of one part leaves alone
notDfs == <<dispVars, wfVars, cardVars, fbVars, callVars, procVars>>
notDisp == <<dfsVars, wfVars, cardVars, fbVars, callVars, procVars>>
notWf == <<dfsVars, cardVars, fbVars, callVars, procVars>>
notCard == <<dfsVars, dispVars, wfVars, fbVars, callVars, procVars>>
notFb == <<dfsVars, dispVars, wfVars, cardVars, callVars, procVars>>
notCall == <<dfsVars, dispVars, wfVars, cardVars, fbVars, procVars>>
notProc == <<dfsVars, dispVars, wfVars, cardVars, fbVars, callVars>>

----------------------------------------------------------------------------
(* Bounds of the exploration.                                              *)

\* most craft_material_dfs calls nested in the wide exploration
MaxNest == 2
\* most OCR text boxes one scan of the requirements strip yields
MaxBoxes == 2
\* most nested calls in the single-chain exploration
DeepNest == 6

----------------------------------------------------------------------------
(* Screen geometry and the values a read of the screen can take.           *)

Screen == [width |-> 1920, height |-> 1080]
MarkerPos == [x |-> 960, y |-> 700]
ConfirmPos == [x |-> 960, y |-> 900]
BluePos == [x |-> 1200, y |-> 400]
RootPos == [x |-> 300, y |-> 500]
NoPos == [x |-> -1, y |-> -1]

\* left edges, inside the captured region, of the text boxes OCR may report
BoxXs == {0, 30, 100}
BoxGeom == [y |-> 10, width |-> 20, height |-> 14]
\* <<current, required>> as the pattern (\d+)\s*/\s*(\d+) reads them off a box
Quantities == {<<2, 5>>, <<5, 5>>}

Box(x, q) ==
    [x |-> x, y |-> BoxGeom.y, width |-> BoxGeom.width, height |-> BoxGeom.height,
     current |-> q[1], required |-> q[2]]

AllBoxes == {Box(x, q) : x \in BoxXs, q \in Quantities}

RECURSIVE SeqsUpTo(_, _)
SeqsUpTo(S, n) ==
    IF n = 0 THEN {<<>>}
    ELSE LET shorter == SeqsUpTo(S, n - 1)
         IN  shorter \cup {Append(s, e) : s \in {t \in shorter : Len(t) = n - 1}, e \in S}

\* no preprocessing variant yielded a text with confidence above 20
NoText == [usable |-> FALSE, boxes |-> <<>>]
Text(boxes) == [usable |-> TRUE, boxes |-> boxes]

\* one text per place of the strip
DistinctPlaces(boxes) ==
    \A j, k \in DOMAIN boxes : j # k => boxes[j].x # boxes[k].x

\* what one OCR pass over the requirements strip can yield: the X/Y boxes it
\* keeps (lines 382-405), in the order OCR reports them, or no usable text
ScanInputs ==
    {NoText} \cup {Text(b) : b \in {c \in SeqsUpTo(AllBoxes, MaxBoxes) : DistinctPlaces(c)}}

\* a strip that shows at most one requirement
ChainInputs == {NoText, Text(<<>>), Text(<<Box(0, <<2, 5>>)>>), Text(<<Box(0, <<5, 5>>)>>)}

Min(a, b) == IF a < b THEN a ELSE b
Max(a, b) == IF a > b THEN a ELSE b

----------------------------------------------------------------------------
(* detect_text_in_region, _merge_text_boxes, _needs_material.              *)

RECURSIVE InsertByX(_, _)
InsertByX(sorted, b) ==
    IF sorted = <<>> THEN <<b>>
    ELSE IF b.x < Head(sorted).x THEN <<b>> \o sorted
    ELSE <<Head(sorted)>> \o InsertByX(Tail(sorted), b)

\* text_boxes.sort(key=lambda b: b['x']): stable, ascending
RECURSIVE SortByX(_)
SortByX(boxes) ==
    IF boxes = <<>> THEN <<>>
    ELSE InsertByX(SortByX(SubSeq(boxes, 1, Len(boxes) - 1)), boxes[Len(boxes)])

SetMin(S) == CHOOSE m \in S : \A n \in S : m <= n
SetMax(S) == CHOOSE m \in S : \A n \in S : m >= n

\* the texts are joined with spaces, so the first X/Y of the joined text is
\* the first box's
MergeTextBoxes(boxes) ==
    IF Len(boxes) = 1 THEN boxes[1]
    ELSE LET idx == DOMAIN boxes
             min_x == SetMin({boxes[k].x : k \in idx})
             min_y == SetMin({boxes[k].y : k \in idx})
             max_x == SetMax({boxes[k].x + boxes[k].width : k \in idx})
             max_y == SetMax({boxes[k].y + boxes[k].height : k \in idx})
         IN  [x |-> min_x, y |-> min_y,
              width |-> max_x - min_x, height |-> max_y - min_y,
              current |-> boxes[1].current, required |-> boxes[1].required]

GapSplit == 15

RECURSIVE GroupBoxes(_, _, _)
GroupBoxes(text_boxes, current_group, materials) ==
    IF text_boxes = <<>>
    THEN IF current_group = <<>> THEN materials
         ELSE Append(materials, MergeTextBoxes(current_group))
    ELSE LET box == Head(text_boxes)
         IN  IF current_group = <<>>
             THEN GroupBoxes(Tail(text_boxes), <<box>>, materials)
             ELSE LET prev_box == current_group[Len(current_group)]
                      gap == box.x - (prev_box.x + prev_box.width)
                  IN  IF gap > GapSplit
                      THEN GroupBoxes(Tail(text_boxes), <<box>>,
                                      Append(materials, MergeTextBoxes(current_group)))
                      ELSE GroupBoxes(Tail(text_boxes), Append(current_group, box),
                                      materials)

DetectTextInRegion(text_boxes) ==
    IF text_boxes = <<>> THEN <<>>
    ELSE GroupBoxes(SortByX(text_boxes), <<>>, <<>>)

\* a bug: the comparison is turned around
NeedsMaterialSwapped(material) == material.current > material.required

\* a bug: a requirement met exactly counts as missing
NeedsMaterialOrEqual(material) == material.current <= material.required

NeedsMaterial(material) == material.current < material.required

\* int(screen_width * 0.30), int(screen_height * 0.05), clamped to the screen
RequirementsRegion(marker) ==
    LET region_width == (Screen.width * 30) \div 100
        region_height == (Screen.height * 5) \div 100
    IN  [x |-> Max(0, Min(marker.x - region_width \div 2, Screen.width - region_width)),
         y |-> Max(0, Min(marker.y - region_height - 20, Screen.height - region_height)),
         width |-> region_width, height |-> region_height]

ClickYOffset == 50

\* centre of the text, then 50 px up, where the material icon is
DepClick(region, mat) ==
    [x |-> region.x + mat.x + mat.width \div 2,
     y |-> region.y + mat.y + mat.height \div 2 - ClickYOffset]

\* a bug: each missing material is put in front of the list
RECURSIVE MissingMaterialsReversed(_, _)
MissingMaterialsReversed(region, materials) ==
    IF materials = <<>> THEN <<>>
    ELSE MissingMaterialsReversed(region, Tail(materials))
         \o (IF NeedsMaterial(Head(materials))
             THEN <<DepClick(region, Head(materials))>> ELSE <<>>)

RECURSIVE MissingMaterials(_, _)
MissingMaterials(region, materials) ==
    IF materials = <<>> THEN <<>>
    ELSE (IF NeedsMaterial(Head(materials)) THEN <<DepClick(region, Head(materials))>>
          ELSE <<>>) \o MissingMaterials(region, Tail(materials))

----------------------------------------------------------------------------
(* craft_material_dfs: one record per active call.                         *)
(*   pc        where the call stands                                       *)
(*   confirm   confirm_x, confirm_y: the local copy taken after the first  *)
(*             wait_for_confirm_button                                     *)
(*   missing   missing_materials, or missing_materials_retry in pass 2     *)
(*   i         index of the dependency being crafted (enumerate from 1)    *)
(*   pass      1 until the popup check finds the popup, 2 afterwards       *)
(* and what the call has done so far:                                      *)
(*   confirms  clicks on confirm                                           *)
(*   atView    it has navigated to its own crafting view and has called no *)
(*             child since (a child's navigation replaces the view)        *)
(*   calls     the clicks it recursed into in this pass                    *)
(*   oks       child calls of this pass that returned True                 *)
(*   seen      the deficit pairs the scan of this pass showed              *)
(*   scanned   a scan of this pass returned                                *)
(*   pairs     what that scan showed: per requirement text its click, the  *)
(*             current and the required amount                             *)
(*   verified  a popup check after the last confirm click found no popup   *)
(*   failedAt  the control whose lookup failed, or the reason of a False   *)

NewFrame(click, depth) ==
    [depth |-> depth, click |-> click, pc |-> "navigate", confirm |-> NoPos,
     missing |-> <<>>, i |-> 1, pass |-> 1,
     confirms |-> 0, atView |-> FALSE, calls |-> <<>>, oks |-> 0, seen |-> <<>>,
     scanned |-> FALSE, pairs |-> <<>>, verified |-> FALSE, failedAt |-> ""]

Top == stack[Len(stack)]
Running == Len(stack) > 0
Below == SubSeq(stack, 1, Len(stack) - 1)

Click(pos) == [kind |-> "click", at |-> pos]
Press(key) == [kind |-> "press", at |-> NoPos]
NoInput == [kind |-> "none", at |-> NoPos]

\* the call on top of the stack goes on as g
Continue(g) == stack' = Append(Below, g)

\* the call on top of the stack returns v ("True" or "False") as g
Return(g, v) ==
    /\ stack' = Below
    /\ ended' = <<[f |-> g, value |-> v]>>
    /\ IF Len(stack) = 1
       THEN result' = v /\ ret' = "none"
       ELSE result' = result /\ ret' = v

\* an exception leaves the call on top: no frame of craft_material_dfs and
\* nothing in craft_material catches it
Raise(g) ==
    /\ stack' = <<>>
    /\ ended' = <<[f |-> g, value |-> "Raised"]>>
    /\ result' = "Raised"
    /\ ret' = "none"

\* the control a navigation looked up and did not find, "" if none: the wait
\* for confirm is looked at only once the blue button was found and clicked
Missed(blue, confirmFound) ==
    IF ~blue THEN "blue" ELSE IF ~confirmFound THEN "confirm" ELSE ""

\* a bug: the result of wait_for_confirm_button is not looked at
NavigateOutcomeNoWait(blue, confirmFound) ==
    IF ~blue THEN "blue" ELSE "ok"

\* find_and_click_blue_button, then wait_for_confirm_button
NavigateOutcome(blue, confirmFound) ==
    IF ~blue THEN "blue" ELSE IF ~confirmFound THEN "confirm" ELSE "ok"

\* a scan result as the call sees it: for each requirement text the place
\* to click for it and the two amounts of its X/Y
ScannedPairs(region, materials) ==
    [k \in DOMAIN materials |->
        [click |-> DepClick(region, materials[k]),
         current |-> materials[k].current,
         required |-> materials[k].required]]

\* the deficit pairs of a scan result, by required - current > 0
RECURSIVE Deficits(_, _)
Deficits(region, materials) ==
    IF materials = <<>> THEN <<>>
    ELSE (IF Head(materials).required - Head(materials).current > 0
          THEN <<DepClick(region, Head(materials))>> ELSE <<>>)
         \o Deficits(region, Tail(materials))

\* a number read off the screen: None when OCR gave no digits
None == [known |-> FALSE, n |-> 0]
Some(n) == [known |-> TRUE, n |-> n]

\* the locals of run_full_workflow at the start of a cycle, with ghost fields:
\*   path        "dispatch" or "resolve" once the numbers are classified
\*   red         has_red
\*   black       has_black
\*   dispatched  dispatch_trains_for_task was called in this cycle
\*   resolving   the red branch (line 888) was entered in this cycle
\*   escs        ESC presses since the red branch was entered
\*   outcome     why the cycle ended
\*   free        what has_available_operators answered
\*   fresh       the Task button was located in this cycle
\*   afterSleep  a sleep lies between the previous cycle and this one
\*   stockRead   the value read for the first red number
\*   stockUsed   material_needed was computed from warehouse_stock
\*   dispatch_success  what dispatch_trains_for_task returned, "none" before
NewCycle ==
    [path |-> "none", red |-> FALSE, black |-> FALSE, dispatched |-> FALSE, resolving |-> FALSE,
     escs |-> 0, outcome |-> "", free |-> TRUE, fresh |-> FALSE,
     afterSleep |-> TRUE, stockRead |-> None, stockUsed |-> FALSE,
     warehouse_stock |-> 0, deliver_amount |-> 0, material_needed |-> 0,
     material_generated |-> 0, train_count |-> 0, dispatch_success |-> "none"]

\* the last sleep of main: its length, whether no cycle has started since,
\* the timer value it was computed from, whether that timer was read at a
\* position saved by an earlier cycle, and the region read
NoSleep == [secs |-> 0, since |-> FALSE, wait_time |-> None, stale |-> FALSE,
            region |-> NoPos]

StartupCountdown == 5


\* no call of craft_in_factory, of _dispatch_trains_for_material_generation
\* or of explore_recipe_tree has been made
CifIdle == [stack |-> <<>>, ret |-> "none", result |-> "idle",
            ended |-> <<>>, input |-> NoInput]
GenIdle == [pc |-> "idle"]
NoEnded == [current_depth |-> -1, entry_len |-> 0, exit_len |-> 0]
ErtIdle == [pc |-> "idle", max_depth |-> 0, frames |-> <<>>,
            recipe_stack |-> <<>>, ended |-> NoEnded]

Init ==
    /\ stack = <<>>
    /\ ret = "none"
    /\ result = "idle"
    /\ ended = <<>>
    /\ confirmButton = NoPos
    /\ popup = FALSE
    /\ input = NoInput
    /\ dpc = "idle"
    /\ di = 0
    /\ success_count = 0
    /\ attempt = 0
    /\ lastRead = "none"
    /\ basis = "none"
    /\ dinput = NoInput
    /\ dresult = "none"
    /\ wpc = "loop"
    /\ cyc = NewCycle
    /\ wresult = "none"
    /\ uiTaskButton = NoPos
    /\ available_operators = 0
    /\ slept = [NoSleep EXCEPT !.secs = StartupCountdown, !.since = TRUE]
    /\ winput = NoInput
    /\ wstop = ""
    /\ cpc = "idle"
    /\ scrolls_performed = 0
    /\ cview = <<>>
    /\ cviews = 0
    /\ cfallback = FALSE
    /\ cresult = NoPos
    /\ cinput = NoInput
    /\ fpc = "idle"
    /\ fattempt = 0
    /\ collected = 0
    /\ fraised = 0
    /\ fswallowed = 0
    /\ fresult = -1
    /\ rd = [fn |-> "none"]
    /\ loc = [fn |-> "none"]
    /\ cif = CifIdle
    /\ gen = GenIdle
    /\ ert = ErtIdle

\* craft_material: find the root icon, then craft_material_dfs(x, y, depth=0)
CraftMaterial ==
    /\ result = "idle"
    /\ \E icon \in BOOLEAN :
         IF icon
         THEN /\ stack' = <<NewFrame(RootPos, 0)>>
              /\ result' = "running"
         ELSE /\ stack' = stack
              /\ result' = "False"
    /\ UNCHANGED <<ret, ended, confirmButton, popup, input>>
    /\ UNCHANGED notDfs

\* lines 651-671: click the material, click the blue button, wait for confirm
Navigate ==
    /\ Running /\ Top.pc = "navigate"
    /\ \E blue \in BOOLEAN, confirmFound \in BOOLEAN :
         LET out == NavigateOutcome(blue, confirmFound)
         IN  IF out = "ok"
             THEN /\ Continue([Top EXCEPT !.pc = "scan", !.confirm = ConfirmPos,
                                          !.atView = TRUE,
                                          !.failedAt = Missed(blue, confirmFound)])
                  /\ confirmButton' = ConfirmPos
                  /\ input' = Click(BluePos)
                  /\ UNCHANGED <<ret, result, ended>>
             ELSE /\ Return([Top EXCEPT !.pc = "done",
                                         !.failedAt = Missed(blue, confirmFound)], "False")
                  /\ input' = IF out = "blue" THEN Click(Top.click) ELSE Click(BluePos)
                  /\ confirmButton' = confirmButton
    /\ UNCHANGED popup
    /\ UNCHANGED notDfs

\* what the call does with a scan result: lines 682-713, and 784-830 in pass 2
AfterScan(f, region, materials) ==
    LET missing == MissingMaterials(region, materials)
        g == [f EXCEPT !.missing = missing, !.i = 1, !.calls = <<>>, !.oks = 0,
                       !.seen = Deficits(region, materials), !.scanned = TRUE,
                       !.pairs = ScannedPairs(region, materials)]
    IN  IF missing # <<>> THEN [g EXCEPT !.pc = "recurse"]
        ELSE IF f.pass = 1 THEN [g EXCEPT !.pc = "confirm"]
        ELSE [g EXCEPT !.pc = "done", !.failedAt = "rescan"]

\* find_material_requirements_region and detect_text_in_region, then the
\* decision on their result. With no usable text best_ocr_data stays None and
\* line 374 raises TypeError.
ScanStep(f, inputs) ==
    \E marker \in BOOLEAN :
        IF ~marker
        THEN Return([f EXCEPT !.pc = "done", !.failedAt = "marker"], "False")
        ELSE \E ocr \in inputs :
               IF ~ocr.usable
               THEN Raise([f EXCEPT !.pc = "done", !.failedAt = "ocr"])
               ELSE LET g == AfterScan(f, RequirementsRegion(MarkerPos),
                                       DetectTextInRegion(ocr.boxes))
                    IN  IF g.pc = "done" THEN Return(g, "False")
                        ELSE Continue(g) /\ UNCHANGED <<ret, result, ended>>

\* lines 673-710
Scan(inputs) ==
    /\ Running /\ Top.pc = "scan"
    /\ ScanStep(Top, inputs)
    /\ UNCHANGED <<confirmButton, popup, input>>
    /\ UNCHANGED notDfs

\* lines 720 and 808: craft_material_dfs(dep['click_x'], dep['click_y'], depth + 1)
Recurse(nest) ==
    /\ Running /\ Top.pc = "recurse"
    /\ Len(stack) < nest
    /\ LET dep == Top.missing[Top.i]
       IN  stack' = Append(Append(Below, [Top EXCEPT !.pc = "child", !.atView = FALSE,
                                                     !.calls = Append(@, dep)]),
                           NewFrame(dep, Top.depth + 1))
    /\ UNCHANGED <<ret, result, ended, confirmButton, popup, input>>
    /\ UNCHANGED notDfs

\* a bug: the child's return value is dropped
ChildVerdictIgnored(r) == "go on"

\* if not self.craft_material_dfs(...): return False
ChildVerdict(r) == IF r = "False" THEN "fail" ELSE "go on"

\* a bug: after the last dependency the call goes straight to confirm
PcAfterChildSkipLast(f) ==
    IF f.i < Len(f.missing) THEN "renavigate" ELSE "confirm"

\* both branches of lines 725-755, and line 812, navigate back
PcAfterChild(f) == "renavigate"

ChildReturned ==
    /\ Running /\ Top.pc = "child" /\ ret # "none"
    /\ IF ChildVerdict(ret) = "fail"
       THEN Return([Top EXCEPT !.pc = "done", !.failedAt = "child"], "False")
       ELSE /\ Continue([Top EXCEPT !.oks = IF ret = "True" THEN @ + 1 ELSE @,
                                    !.pc = PcAfterChild(Top)])
            /\ ret' = "none"
            /\ ended' = <<>>
            /\ UNCHANGED result
    /\ UNCHANGED <<confirmButton, popup, input>>
    /\ UNCHANGED notDfs

\* after the loop over the dependencies comes the confirm click
PcAfterRenavigate(f) ==
    IF f.i < Len(f.missing) THEN "recurse" ELSE "confirm"

\* lines 725-755 and 812-822
Renavigate ==
    /\ Running /\ Top.pc = "renavigate"
    /\ \E blue \in BOOLEAN, confirmFound \in BOOLEAN :
         LET out == NavigateOutcome(blue, confirmFound)
         IN  IF out = "ok"
             THEN /\ Continue([Top EXCEPT !.pc = PcAfterRenavigate(Top),
                                          !.i = IF @ < Len(Top.missing) THEN @ + 1 ELSE @,
                                          !.atView = TRUE,
                                          !.failedAt = Missed(blue, confirmFound)])
                  /\ confirmButton' = ConfirmPos
                  /\ input' = Click(BluePos)
                  /\ UNCHANGED <<ret, result, ended>>
             ELSE /\ Return([Top EXCEPT !.pc = "done",
                                         !.failedAt = Missed(blue, confirmFound)], "False")
                  /\ input' = IF out = "blue" THEN Click(Top.click) ELSE Click(BluePos)
                  /\ confirmButton' = confirmButton
    /\ UNCHANGED popup
    /\ UNCHANGED notDfs

\* a bug: the popup check and its retry follow every confirm click
PcAfterConfirmAlways(f) == "verify"

\* the popup check of line 767 follows the first confirm click only
PcAfterConfirm(f) == IF f.pass = 1 THEN "verify" ELSE "finish"

\* lines 762 and 826: safe_click(confirm_x, confirm_y); the game answers with
\* the popup or without it
Confirm ==
    /\ Running /\ Top.pc = "confirm"
    /\ Continue([Top EXCEPT !.confirms = @ + 1, !.verified = FALSE,
                            !.pc = PcAfterConfirm(Top)])
    /\ input' = Click(Top.confirm)
    /\ popup' \in BOOLEAN
    /\ UNCHANGED <<ret, result, ended, confirmButton>>
    /\ UNCHANGED notDfs

\* lines 767-830: check_for_not_enough_materials_popup; with the popup, ESC,
\* scan again and go through the dependencies found
Verify(inputs) ==
    /\ Running /\ Top.pc = "verify"
    /\ IF ~popup
       THEN /\ Continue([Top EXCEPT !.verified = TRUE, !.pc = "finish"])
            /\ UNCHANGED <<ret, result, ended, popup, input>>
       ELSE /\ popup' = FALSE
            /\ input' = Press("esc")
            /\ ScanStep([Top EXCEPT !.pass = 2, !.scanned = FALSE], inputs)
    /\ UNCHANGED confirmButton
    /\ UNCHANGED notDfs

\* lines 832-840: ESC unless this is the root, return True
Finish ==
    /\ Running /\ Top.pc = "finish"
    /\ Return([Top EXCEPT !.pc = "done"], "True")
    /\ IF Top.depth > 0
       THEN input' = Press("esc") /\ popup' = FALSE
       ELSE UNCHANGED <<input, popup>>
    /\ UNCHANGED confirmButton
    /\ UNCHANGED notDfs

NextDfs ==
    \/ CraftMaterial
    \/ Navigate
    \/ Scan(ScanInputs)
    \/ Recurse(MaxNest)
    \/ ChildReturned
    \/ Renavigate
    \/ Confirm
    \/ Verify(ScanInputs)
    \/ Finish

SpecDfs == Init /\ [][NextDfs]_vars

NextDeep ==
    \/ CraftMaterial
    \/ Navigate
    \/ Scan(ChainInputs)
    \/ Recurse(DeepNest)
    \/ ChildReturned
    \/ Renavigate
    \/ Confirm
    \/ Verify(ChainInputs)
    \/ Finish

SpecDeep == Init /\ [][NextDeep]_vars

----------------------------------------------------------------------------
(* Properties of craft_material_dfs.                                       *)

Frames == {stack[k] : k \in DOMAIN stack}
EndedCalls == {ended[k] : k \in DOMAIN ended}
\* every call there is a record of, with the value it ended with or "active"
Calls ==
    {[f |-> g, value |-> "active"] : g \in Frames} \cup EndedCalls

Controls == {"blue", "confirm", "marker"}

\* the confirm click of the call's present pass has been made
ConfirmedThisPass(f) == f.confirms = f.pass

AscendingX(clicks) ==
    \A j, k \in DOMAIN clicks : j < k => clicks[j].x < clicks[k].x

IsPrefix(s, t) ==
    Len(s) <= Len(t) /\ \A k \in DOMAIN s : s[k] = t[k]

\* C2: a call whose navigation succeeded and whose first scan showed no
\* deficit pair (every pair has current >= required, or there is no pair)
\* recurses into nothing and clicks confirm: it is either about to click, or
\* has clicked, and no such call ends without a confirm click.
C2_AllSatisfiedConfirms ==
    \A c \in Calls :
        (c.f.pass = 1 /\ c.f.atView /\ c.f.seen = <<>>
            /\ c.f.failedAt \notin Controls /\ c.f.pc # "scan")
        => /\ c.f.calls = <<>>
           /\ c.f.pc \in {"confirm", "verify", "finish", "done"}
           /\ (c.f.pc = "done" => c.f.confirms = 1)

\* C3: when the scan of a pass shows exactly one deficit pair and the call
\* reaches the confirm click of that pass, it has recursed exactly once, into
\* that pair's node, and the child returned True; a child runs at depth + 1
\* on the click its caller chose, and while it runs its caller has not
\* clicked the confirm of that pass.
C3_OneDeficitOneRecursion ==
    /\ \A c \in Calls :
         (Len(c.f.seen) = 1 /\ ConfirmedThisPass(c.f))
         => c.f.calls = c.f.seen /\ c.f.oks = 1
    /\ \A k \in DOMAIN stack :
         k > 1 => /\ stack[k].depth = stack[k - 1].depth + 1
                  /\ stack[k - 1].pc = "child"
                  /\ stack[k].click = stack[k - 1].calls[Len(stack[k - 1].calls)]
                  /\ ~ConfirmedThisPass(stack[k - 1])

C3_Witness ==
    \E c \in Calls :
        /\ Len(c.f.seen) = 1 /\ ConfirmedThisPass(c.f)
        /\ c.f.calls = c.f.seen /\ c.f.oks = 1

\* the depth bound the specification gives the resolver
MaxCraftDepth == 5

\* C4: no craft_material_dfs call runs deeper than maxDepth (5), and a call
\* entered at depth maxDepth returns False at once, without raising: it
\* never goes on to navigate.
C4_DepthBounded ==
    /\ \A g \in Frames : g.depth <= MaxCraftDepth
    /\ \A g \in Frames : g.depth = MaxCraftDepth => g.pc = "navigate"
    /\ \A e \in EndedCalls :
         e.f.depth = MaxCraftDepth
         => e.value = "False" /\ ~e.f.atView /\ e.f.failedAt = ""

\* C5: the nodes a call recurses into are the deficit pairs of its scan from
\* left to right (ascending x), and when the confirm of a pass is clicked
\* every deficit pair of that pass has been recursed into and has returned
\* True.
C5_LeftToRightPostOrder ==
    \A c \in Calls :
        /\ AscendingX(c.f.calls)
        /\ IsPrefix(c.f.calls, c.f.seen)
        /\ ConfirmedThisPass(c.f)
           => c.f.calls = c.f.seen /\ c.f.oks = Len(c.f.seen)

C5_Witness ==
    \E c \in Calls :
        /\ Len(c.f.calls) = 2 /\ ConfirmedThisPass(c.f)
        /\ c.f.calls[1].x < c.f.calls[2].x

\* C6 as stated: a call that saw the popup after its first confirm click has,
\* when it ends, clicked confirm exactly once more (twice in all).
C6_RetryConfirmsExactlyOnce ==
    \A e \in EndedCalls : e.f.pass = 2 => e.f.confirms = 2

\* C6 as amended: confirm is clicked at most twice per call, the second time
\* only after the popup; a call that saw the popup clicks confirm once more
\* exactly when the re-scan showed at least one deficit pair and every one of
\* them was crafted and navigated back from, and then it returns True; when
\* it ends otherwise it has clicked confirm no further time.
C6_RetryConfirmsAtMostOnce ==
    /\ \A c \in Calls :
         /\ c.f.confirms <= 2
         /\ c.f.confirms = 2 => c.f.pass = 2
    /\ \A e \in EndedCalls :
         e.f.pass = 2
         => /\ e.f.confirms \in {1, 2}
            /\ e.f.confirms = 2 <=> e.value = "True"
            /\ e.f.confirms = 2
               => /\ e.f.seen # <<>>
                  /\ e.f.calls = e.f.seen
                  /\ e.f.oks = Len(e.f.seen)
                  /\ e.f.atView

C6_Witness ==
    \E e \in EndedCalls : e.f.pass = 2 /\ e.f.confirms = 2 /\ e.value = "True"

\* C7: a call returns True only if a popup check after its last confirm click
\* found no popup.
C7_TrueOnlyIfVerified ==
    \A e \in EndedCalls : e.value = "True" => e.f.verified

\* C8 as stated: when a child of a call fails, the remaining deficit pairs of
\* the call are still recursed into.
C8_SiblingsStillAttempted ==
    \A e \in EndedCalls :
        e.f.oks < Len(e.f.calls) => e.f.calls = e.f.seen

\* C8 as amended: a failed child ends its caller at once: the caller returns
\* False without raising, having recursed into no later sibling and clicked
\* no confirm in that pass; no call goes on past a child that returned False.
C8_FailFast ==
    /\ \A g \in Frames :
         Len(g.calls) = IF g.pc = "child" THEN g.oks + 1 ELSE g.oks
    /\ \A e \in EndedCalls :
         e.f.oks < Len(e.f.calls)
         => /\ e.value = "False"
            /\ Len(e.f.calls) = e.f.oks + 1
            /\ e.f.confirms = e.f.pass - 1
            /\ (stack = <<>> => result = "False")

C8_Witness ==
    \E e \in EndedCalls :
        /\ e.f.oks < Len(e.f.calls)
        /\ Len(e.f.calls) < Len(e.f.seen)
        /\ e.value = "False"

\* C9: a call that is about to recurse or to click confirm is at its own
\* crafting view: after every child that returned, the last one included,
\* it has navigated back before either.
C9_RenavigateAfterChild ==
    \A g \in Frames :
        /\ g.pc \in {"recurse", "confirm"} => g.atView
        /\ g.pc = "renavigate" => ~g.atView /\ g.oks >= 1

C9_Witness ==
    \E g \in Frames :
        g.pc = "confirm" /\ g.oks = Len(g.missing) /\ g.oks >= 1 /\ g.atView

\* C10 as stated: a call that found a navigation control missing returns
\* False without having clicked confirm.
C10_MissingControlNoConfirm ==
    \A e \in EndedCalls :
        e.f.failedAt \in Controls => e.value = "False" /\ e.f.confirms = 0

\* C10 as amended: a call that finds a navigation control missing ends there:
\* it returns False without raising and without a further confirm click, so
\* it has clicked confirm not at all when the control is missed before the
\* popup check, and once (the click that brought the popup) when it is
\* missed after it.
C10_MissingControlEndsCall ==
    /\ \A g \in Frames : g.failedAt = ""
    /\ \A e \in EndedCalls :
         e.f.failedAt \in Controls
         => e.value = "False" /\ e.f.confirms = e.f.pass - 1

C10_Witness ==
    \E e \in EndedCalls :
        e.f.failedAt \in Controls /\ e.value = "False" /\ e.f.pass = 2

\* C11: of the requirement texts a scan returns, the candidates for
\* recursion are exactly those with required - current > 0, in the scan's
\* order; a text with current >= required is never recursed into, and every
\* click recursed into is a candidate's.
C11_CandidateIffDeficit ==
    \A c \in Calls :
        c.f.scanned
        => /\ \A k \in DOMAIN c.f.pairs :
                (c.f.pairs[k].required - c.f.pairs[k].current > 0)
                <=> (\E j \in DOMAIN c.f.missing : c.f.missing[j] = c.f.pairs[k].click)
           /\ Len(c.f.missing)
                = Cardinality({k \in DOMAIN c.f.pairs :
                                 c.f.pairs[k].required - c.f.pairs[k].current > 0})
           /\ \A j \in DOMAIN c.f.calls :
                \E k \in DOMAIN c.f.pairs :
                    /\ c.f.pairs[k].click = c.f.calls[j]
                    /\ c.f.pairs[k].current < c.f.pairs[k].required

\* a scan with a satisfied and a deficit text, the deficit one recursed into
C11_Witness ==
    \E c \in Calls :
        /\ c.f.scanned
        /\ \E k \in DOMAIN c.f.pairs : c.f.pairs[k].current >= c.f.pairs[k].required
        /\ \E k \in DOMAIN c.f.pairs : c.f.pairs[k].current < c.f.pairs[k].required
        /\ c.f.calls # <<>>

----------------------------------------------------------------------------
(* Part II. TrainDispatcher.                                               *)
(* A text is a sequence of characters.                                     *)

TapTheTrainTo ==
    <<"T", "A", "P", " ", "T", "H", "E", " ", "T", "R", "A", "I", "N", " ",
      "T", "O">>

PleaseWaitUntil ==
    <<"P", "L", "E", "A", "S", "E", " ", "W", "A", "I", "T", " ", "U", "N",
      "T", "I", "L">>

\* the game's line while a train can be sent
TextTapDispatch ==
    <<"T", "A", "P", " ", "T", "H", "E", " ", "T", "R", "A", "I", "N", " ",
      "T", "O", " ", "D", "I", "S", "P", "A", "T", "C", "H">>

\* the beginning of the game's line when every train is out
TextPleaseWait ==
    <<"P", "L", "E", "A", "S", "E", " ", "W", "A", "I", "T", " ", "U", "N",
      "T", "I", "L", " ", "T", "H", "E", " ", "T", "R", "A", "I", "N", "S",
      " ", "R", "E", "A", "C", "H">>

\* the first line as OCR may give it: lower case, a line break
TextTapLower ==
    <<"T", "a", "p", " ", "t", "h", "e", " ", " ", "t", "r", "a", "i", "n",
      "\n", "t", "o", " ", "d", "i", "s", "p", "a", "t", "c", "h">>

\* the second line with two characters misread
TextWaitGarbled ==
    <<"P", "L", "E", "A", "5", "E", " ", "W", "A", "I", "T", " ", "U", "N",
      "T", "I", "1">>

\* a text that is neither line
TextOther ==
    <<"L", "O", "A", "D", "I", "N", "G">>

\* the first line cut short and misread
TextTapGarbled ==
    <<"T", "A", "P", " ", "T", "K", "E", " ", "T", "R", "A", "1", "N">>

\* what _read_train_status_text can return: the longest of the OCR variants'
\* texts, or the empty string
StatusTexts ==
    {<<>>, TextTapDispatch, TextPleaseWait, TextTapLower, TextWaitGarbled,
     TextOther, TextTapGarbled}

Lower == <<"a", "b", "c", "d", "e", "f", "g", "h", "i", "j", "k", "l", "m",
           "n", "o", "p", "q", "r", "s", "t", "u", "v", "w", "x", "y", "z">>
Upper == <<"A", "B", "C", "D", "E", "F", "G", "H", "I", "J", "K", "L", "M",
           "N", "O", "P", "Q", "R", "S", "T", "U", "V", "W", "X", "Y", "Z">>
Whitespace == {" ", "\n", "\t"}

\* str.upper, character by character
UpperChar(c) ==
    IF \E k \in DOMAIN Lower : Lower[k] = c
    THEN Upper[CHOOSE k \in DOMAIN Lower : Lower[k] = c]
    ELSE c

\* ' '.join(text.upper().split()): runs of whitespace become one space, none
\* at either end
RECURSIVE JoinSplit(_, _, _)
JoinSplit(text, out, pending) ==
    IF text = <<>> THEN out
    ELSE IF Head(text) \in Whitespace
    THEN JoinSplit(Tail(text), out, out # <<>>)
    ELSE JoinSplit(Tail(text),
                   (IF pending THEN Append(out, " ") ELSE out) \o <<UpperChar(Head(text))>>,
                   FALSE)

Normalize(text) == JoinSplit(text, <<>>, FALSE)

\* target in text
IsSubstring(target, text) ==
    \E k \in 0..(Len(text) - Len(target)) :
        \A j \in 1..Len(target) : text[k + j] = target[j]

\* length of the common run of a from i and b from j, inside a[..ahi], b[..bhi]
RECURSIVE RunLen(_, _, _, _, _, _)
RunLen(a, b, i, j, ahi, bhi) ==
    IF i > ahi \/ j > bhi THEN 0
    ELSE IF a[i] # b[j] THEN 0
    ELSE 1 + RunLen(a, b, i + 1, j + 1, ahi, bhi)

\* SequenceMatcher.find_longest_match on a[alo..ahi], b[blo..bhi] (1-based,
\* inclusive; no junk: autojunk acts on sequences of 200 and more): the
\* longest common block, of those the one starting earliest in a, of those
\* the one starting earliest in b
FindLongestMatch(a, b, alo, ahi, blo, bhi) ==
    LET starts == (alo..ahi) \X (blo..bhi)
        Size(p) == RunLen(a, b, p[1], p[2], ahi, bhi)
        best == IF starts = {} THEN 0
                ELSE SetMax({Size(p) : p \in starts})
    IN  IF best = 0 THEN <<alo, blo, 0>>
        ELSE LET longest == {p \in starts : Size(p) = best}
                 i == SetMin({p[1] : p \in longest})
                 j == SetMin({p[2] : p \in {q \in longest : q[1] = i}})
             IN  <<i, j, best>>

\* the sum of the sizes of get_matching_blocks: the longest block, then the
\* same to its left and to its right
RECURSIVE MatchingChars(_, _, _, _, _, _)
MatchingChars(a, b, alo, ahi, blo, bhi) ==
    IF alo > ahi \/ blo > bhi THEN 0
    ELSE LET m == FindLongestMatch(a, b, alo, ahi, blo, bhi)
         IN  IF m[3] = 0 THEN 0
             ELSE m[3]
                  + MatchingChars(a, b, alo, m[1] - 1, blo, m[2] - 1)
                  + MatchingChars(a, b, m[1] + m[3], ahi, m[2] + m[3], bhi)

\* TRAIN_STATUS_MATCH_THRESHOLD = 0.70, in hundredths
MatchThreshold == 70

\* SequenceMatcher(None, text, target).ratio() >= threshold, with
\* ratio = 2.0 * matches / (len(text) + len(target))
RatioAtLeast(text, target, hundredths) ==
    LET total == Len(text) + Len(target)
        matches == MatchingChars(text, target, 1, Len(text), 1, Len(target))
    IN  IF total = 0 THEN TRUE
        ELSE 2 * matches * 100 >= hundredths * total

\* a bug: the substring test is left out
FuzzyTextMatchRatioOnly(text, target, hundredths) ==
    IF text = <<>> \/ target = <<>> THEN FALSE
    ELSE RatioAtLeast(Normalize(text), Normalize(target), hundredths)

FuzzyTextMatch(text, target, hundredths) ==
    IF text = <<>> \/ target = <<>> THEN FALSE
    ELSE LET t == Normalize(text)
             g == Normalize(target)
         IN  IF IsSubstring(g, t) THEN TRUE
             ELSE RatioAtLeast(t, g, hundredths)

\* check_trains_available_by_text on the text read
CheckTrainsAvailableByText(text) ==
    IF text = <<>> THEN FALSE
    ELSE IF FuzzyTextMatch(text, TapTheTrainTo, MatchThreshold) THEN TRUE
    ELSE IF FuzzyTextMatch(text, PleaseWaitUntil, MatchThreshold) THEN FALSE
    ELSE FALSE

\* check_all_trains_used on the text read; fallback: the AlltrainsUsed
\* template is found (looked up only when no text was read)
CheckAllTrainsUsed(text, fallback) ==
    IF text = <<>> THEN fallback
    ELSE IF FuzzyTextMatch(text, PleaseWaitUntil, MatchThreshold) THEN TRUE
    ELSE IF FuzzyTextMatch(text, TapTheTrainTo, MatchThreshold) THEN FALSE
    ELSE FALSE

----------------------------------------------------------------------------
(* dispatch_train and dispatch_trains_for_task.                            *)

MaxDispatches == 10
DispatchAttempts == 3

\* int(self.screen_width / 6), int(self.screen_height * 0.85)
TrainPos == [x |-> Screen.width \div 6, y |-> (Screen.height * 85) \div 100]
\* the safe place the pointer is moved to, off the progress bar
SafePos == [x |-> Screen.width \div 2, y |-> Screen.height \div 2]
DispatchPos == [x |-> 1500, y |-> 950]
MoveTo(pos) == [kind |-> "moveTo", at |-> pos]

\* how a status read came out: "used" when check_all_trains_used answers
\* True, else "available" when the text matches TAP THE TRAIN TO, else
\* "unclear": the text (the empty text too) matches neither phrase
ReadClass(text, fallback) ==
    IF CheckAllTrainsUsed(text, fallback) THEN "used"
    ELSE IF FuzzyTextMatch(text, TapTheTrainTo, MatchThreshold) THEN "available"
    ELSE "unclear"

\* what the status reads of one screen can come to: the class of the read
\* and the answer of check_all_trains_used, over every text and fallback
StatusReads ==
    {[class |-> ReadClass(text, fallback), used |-> CheckAllTrainsUsed(text, fallback)] :
        text \in StatusTexts, fallback \in BOOLEAN}

\* a bug: the loop goes on after the phrase was detected
AfterStatusNoBreak(used, next) == next

\* lines 308-311, 323-326 and 336-338: break when all trains are used
AfterStatus(used, next) == IF used THEN "summary" ELSE next

\* a call of check_all_trains_used at pc = at: on True the loop is left
\* (break), on False the call goes on at pc = next
StatusCheck(at, next) ==
    /\ dpc = at
    /\ \E read \in StatusReads :
         /\ lastRead' = read.class
         /\ dinput' = IF read.used THEN MoveTo(SafePos) ELSE dinput
         /\ dpc' = AfterStatus(read.used, next)
    /\ UNCHANGED <<di, success_count, basis, dresult>>

DispatchTrainsForTask ==
    /\ dpc = "idle"
    /\ dpc' = "click"
    /\ di' = 0
    /\ success_count' = 0
    /\ UNCHANGED <<attempt, lastRead, basis, dinput, dresult>>
    /\ UNCHANGED notDisp

\* lines 294-305: click the train at the estimated position
ClickTrain ==
    /\ dpc = "click"
    /\ dinput' = Click(TrainPos)
    /\ dpc' = "check"
    /\ UNCHANGED <<di, success_count, attempt, lastRead, basis, dresult>>
    /\ UNCHANGED notDisp

\* line 308
CheckBeforeDispatch ==
    /\ StatusCheck("check", "dispatch")
    /\ attempt' = 0
    /\ UNCHANGED notDisp

\* a bug: no retry
AfterMissGiveUp(misses) == "failed"

\* lines 236, 244-251: the for loop goes on until range(3) is used up
AfterMiss(misses) == IF misses < DispatchAttempts THEN "dispatch" ELSE "failed"

\* dispatch_train: one lookup of the Dispatch button per attempt; found: one
\* click and True; after the third miss False
DispatchTrain ==
    /\ dpc = "dispatch"
    /\ \E found \in BOOLEAN :
         IF found
         THEN /\ dinput' = Click(DispatchPos)
              /\ basis' = lastRead
              /\ success_count' = success_count + 1
              /\ dpc' = "recheck"
              /\ attempt' = attempt
         ELSE /\ attempt' = attempt + 1
              /\ dpc' = AfterMiss(attempt + 1)
              /\ UNCHANGED <<dinput, basis, success_count>>
    /\ UNCHANGED <<di, lastRead, dresult>>
    /\ UNCHANGED notDisp

\* line 323
CheckAfterDispatch ==
    /\ StatusCheck("recheck", "complete")
    /\ attempt' = attempt
    /\ UNCHANGED notDisp

\* lines 329-332, then the next i of the for loop
CheckTaskComplete ==
    /\ dpc = "complete"
    /\ \E timer \in BOOLEAN :
         IF timer \/ di + 1 >= MaxDispatches
         THEN dpc' = "summary" /\ di' = di
         ELSE dpc' = "click" /\ di' = di + 1
    /\ UNCHANGED <<success_count, attempt, lastRead, basis, dinput, dresult>>
    /\ UNCHANGED notDisp

\* lines 333-344: every path of the else branch leaves the loop
DispatchFailed ==
    /\ StatusCheck("failed", "summary")
    /\ attempt' = attempt
    /\ UNCHANGED notDisp

\* a summary that reports a dispatch whatever the count
AnyDispatchedAlways(count) == TRUE

\* lines 351 and 361: success_count > 0
AnyDispatched(count) == count > 0

\* lines 346-361; the two presses of ESC are one event here
Summary ==
    /\ dpc = "summary"
    /\ dpc' = "done"
    /\ dinput' = IF AnyDispatched(success_count) THEN Press("esc") ELSE dinput
    /\ dresult' = IF AnyDispatched(success_count) THEN "True" ELSE "False"
    /\ UNCHANGED <<di, success_count, attempt, lastRead, basis>>
    /\ UNCHANGED notDisp

NextDispatch ==
    \/ DispatchTrainsForTask
    \/ ClickTrain
    \/ CheckBeforeDispatch
    \/ DispatchTrain
    \/ CheckAfterDispatch
    \/ CheckTaskComplete
    \/ DispatchFailed
    \/ Summary

SpecDispatch == Init /\ [][NextDispatch]_vars

\* C1: no click on Dispatch is made on a status read that matched neither
\* phrase: the last read before every Dispatch click matched one of them.
C1_NoDispatchOnUnclear == basis # "unclear"

----------------------------------------------------------------------------
(* Part III. TaskAutomation.run_full_workflow and main.                    *)

\* most material numbers _find_material_numbers yields on one card
MaxNumbers == 2

\* where the Task button can be found: the game window may have been moved
ButtonPlaces == {[x |-> 100, y |-> 800], [x |-> 400, y |-> 800]}
CardPos == [x |-> 500, y |-> 400]
NumberPos == [x |-> 450, y |-> 380]
CollectPos == [x |-> 1500, y |-> 950]
StoragePos == [x |-> 1800, y |-> 100]

\* a material number: is_red and the value OCR read for it
NumberKinds == [is_red : BOOLEAN, value : {None, Some(20), Some(50)}]
MaterialNumbers == SeqsUpTo(NumberKinds, MaxNumbers)
DeliverReadings == {None, Some(40), Some(400)}

AverageTrainCapacity == 30
MaxTrains == 10
PollInterval == 30
TimerBuffer == 10

\* read_operator_count: with the display found or not, OCR of the count is
\* not implemented and the result is None
NoCount == [known |-> FALSE, occupied |-> 0, total |-> 0]
ReadOperatorCount(display) == NoCount

HasAvailableOperators(display) ==
    LET operator_count == ReadOperatorCount(display)
    IN  IF ~operator_count.known THEN TRUE
        ELSE operator_count.occupied < operator_count.total

GetAvailableOperatorCount(display) ==
    LET operator_count == ReadOperatorCount(display)
    IN  IF ~operator_count.known THEN 1
        ELSE operator_count.total - operator_count.occupied

\* the timer text as the three patterns (\d+)\s*h, (\d+)\s*m, (\d+)\s*s find
\* it: the number of each, -1 where the pattern finds nothing
TimerTexts ==
    {[h |-> -1, m |-> -1, s |-> -1], [h |-> -1, m |-> 5, s |-> 30],
     [h |-> -1, m |-> -1, s |-> 0]}

ParseTimerText(text) ==
    LET total_seconds == (IF text.h >= 0 THEN text.h * 3600 ELSE 0)
                         + (IF text.m >= 0 THEN text.m * 60 ELSE 0)
                         + (IF text.s >= 0 THEN text.s ELSE 0)
    IN  IF total_seconds > 0 THEN Some(total_seconds) ELSE None

\* the region read is placed by the saved position of the Task button
TimerRegion(task_coords) ==
    [x |-> Max(0, task_coords.x - 120 \div 2),
     y |-> Max(0, task_coords.y - 60 - 60 \div 2)]

ReadNextOperatorTimer(task_coords, text) ==
    IF task_coords = NoPos THEN None ELSE ParseTimerText(text)

\* main, lines 1011-1029: if wait_time is None or 0 the default is slept
SleepSeconds(success, wait_time) ==
    IF success THEN PollInterval
    ELSE IF wait_time.known /\ wait_time.n # 0 THEN wait_time.n + TimerBuffer
    ELSE PollInterval

HasRed(material_numbers) ==
    \E k \in DOMAIN material_numbers : material_numbers[k].is_red
HasBlack(material_numbers) ==
    \E k \in DOMAIN material_numbers : ~material_numbers[k].is_red

\* a bug: any black number starts the task
RouteBlackFirst(material_numbers) ==
    IF material_numbers = <<>> THEN "dispatch"
    ELSE IF HasBlack(material_numbers) THEN "dispatch"
    ELSE "resolve"

\* lines 759, 830 and 888
Route(material_numbers) ==
    IF material_numbers = <<>> THEN "dispatch"
    ELSE IF HasBlack(material_numbers) /\ ~HasRed(material_numbers) THEN "dispatch"
    ELSE "resolve"

\* next((n for n in material_numbers if n['is_red']), None)
FirstRed(material_numbers) ==
    material_numbers[CHOOSE k \in DOMAIN material_numbers :
                        /\ material_numbers[k].is_red
                        /\ \A j \in DOMAIN material_numbers :
                             material_numbers[j].is_red => k <= j]

\* line 909: red_number['value'] if red_number['value'] is not None else 0
WarehouseStock(value) == IF value.known THEN value.n ELSE 0

\* a bug: every exception is handed on
WorkflowHandlerNoCatchAll(exc) == "raise"

\* the except clauses of run_full_workflow, lines 978-985
WorkflowHandler(exc) ==
    IF exc = "FailSafeException" THEN "raise" ELSE "return False"

\* the except clauses of main, lines 1031-1036: anything else ends the
\* process with a traceback
MainHandler(exc) ==
    IF exc \in {"FailSafeException", "KeyboardInterrupt"} THEN "stopped"
    ELSE "crashed"

\* a bug: after a successful generation the task is started at once
AfterGenerationDispatch(generation_success) ==
    IF generation_success THEN "collect" ELSE "returned"

\* lines 934-948: either way ESC twice and return False
AfterGeneration(generation_success) == "returned"

MaxCollectAttempts == 10

\* the positions of run_full_workflow at which a step may inject input
CyclePcs ==
    {"menu", "completed", "find", "numbers", "collect", "dispatching",
     "deliver", "material", "generate", "close", "warehouse"}

\* the dispatcher between two calls
DispatcherIdle ==
    /\ dpc' = "idle"
    /\ di' = 0
    /\ success_count' = 0
    /\ attempt' = 0
    /\ lastRead' = "none"
    /\ basis' = "none"
    /\ dinput' = NoInput
    /\ dresult' = "none"

\* return value of run_full_workflow
ReturnFrom(c, value, why) ==
    /\ wpc' = "returned"
    /\ wresult' = value
    /\ cyc' = [c EXCEPT !.outcome = why]

\* an exception raised inside the try block of run_full_workflow
RaiseInWorkflow(c, exc) ==
    IF WorkflowHandler(exc) = "raise"
    THEN /\ wpc' = MainHandler(exc)
         /\ wstop' = exc
         /\ wresult' = "none"
         /\ cyc' = [c EXCEPT !.outcome = exc]
    ELSE /\ ReturnFrom(c, "False", exc)
         /\ wstop' = wstop

\* main line 1009 and run_full_workflow lines 672-691
StartCycle ==
    /\ wpc = "loop"
    /\ \E display \in BOOLEAN, text \in TimerTexts :
         LET c == [NewCycle EXCEPT !.afterSleep = slept.since,
                                   !.free = HasAvailableOperators(display)]
         IN  IF ~HasAvailableOperators(display)
             THEN /\ ReturnFrom(c, "False", "no operator")
                  /\ slept' = [NoSleep EXCEPT
                                 !.wait_time = ReadNextOperatorTimer(uiTaskButton, text),
                                 !.stale = uiTaskButton # NoPos]
                  /\ UNCHANGED available_operators
             ELSE /\ wpc' = "menu"
                  /\ cyc' = c
                  /\ wresult' = "none"
                  /\ slept' = NoSleep
                  /\ available_operators' = GetAvailableOperatorCount(display)
    /\ winput' = NoInput
    /\ UNCHANGED <<uiTaskButton, wstop>>
    /\ UNCHANGED <<dispVars, notWf>>

\* open_task_menu: locate_and_click("task_button"), which saves the match
OpenTaskMenu ==
    /\ wpc = "menu"
    /\ \E match \in ButtonPlaces \cup {NoPos} :
         IF match # NoPos
         THEN /\ uiTaskButton' = match
              /\ winput' = Click(match)
              /\ wpc' = "completed"
              /\ cyc' = [cyc EXCEPT !.fresh = TRUE]
              /\ UNCHANGED wresult
         ELSE /\ ReturnFrom(cyc, "False", "missed")
              /\ UNCHANGED <<uiTaskButton, winput>>
    /\ UNCHANGED <<available_operators, slept, wstop>>
    /\ UNCHANGED <<dispVars, notWf>>

\* lines 701-729: a completed task is collected and the first card reopened
CollectCompleted ==
    /\ wpc = "completed"
    /\ \E collect_match \in BOOLEAN :
         winput' = IF collect_match THEN Click(CardPos) ELSE winput
    /\ wpc' = "find"
    /\ UNCHANGED <<cyc, wresult, uiTaskButton, available_operators, slept, wstop>>
    /\ UNCHANGED <<dispVars, notWf>>

\* lines 733-745: find_first_available_task (Part IV) gives a position or None
FindTask ==
    /\ wpc = "find"
    /\ \E available_task \in {CardPos, NoPos} :
         IF available_task = NoPos
         THEN /\ winput' = Press("esc")
              /\ ReturnFrom(cyc, "False", "no task")
         ELSE /\ wpc' = "numbers"
              /\ UNCHANGED <<cyc, wresult, winput>>
    /\ UNCHANGED <<uiTaskButton, available_operators, slept, wstop>>
    /\ UNCHANGED <<dispVars, notWf>>

\* lines 757-845 and 888: the numbers of the card decide the branch; on the
\* dispatch branch the card is clicked
FindMaterialNumbers ==
    /\ wpc = "numbers"
    /\ \E material_numbers \in MaterialNumbers :
         LET path == Route(material_numbers)
         IN  /\ cyc' = [cyc EXCEPT
                          !.path = path,
                          !.red = HasRed(material_numbers),
                          !.black = HasBlack(material_numbers),
                          !.resolving = (path = "resolve"),
                          !.stockRead = IF HasRed(material_numbers)
                                        THEN FirstRed(material_numbers).value
                                        ELSE None]
             /\ wpc' = IF path = "dispatch" THEN "collect" ELSE "deliver"
             /\ winput' = IF path = "dispatch" THEN Click(NumberPos) ELSE winput
    /\ UNCHANGED <<wresult, uiTaskButton, available_operators, slept, wstop>>
    /\ UNCHANGED <<dispVars, notWf>>

\* lines 777-801 and 855-879: up to ten Collect buttons, then the call of
\* dispatch_trains_for_task (Part II runs until it is done)
CollectThenDispatch ==
    /\ wpc = "collect"
    /\ \E collect_count \in 0..MaxCollectAttempts :
         winput' = IF collect_count > 0 THEN Click(CollectPos) ELSE winput
    /\ wpc' = "dispatching"
    /\ cyc' = [cyc EXCEPT !.dispatched = TRUE]
    /\ dpc' = "click"
    /\ di' = 0
    /\ success_count' = 0
    /\ UNCHANGED <<attempt, lastRead, basis, dinput, dresult>>
    /\ UNCHANGED <<wresult, uiTaskButton, available_operators, slept, wstop>>
    /\ UNCHANGED notWf

\* lines 805-813 and 883-886, 973-976: True whatever the dispatcher returned
\* a dispatch branch that returns what the dispatcher returned
DispatchBranchResultBySuccess(dispatch_success) == dispatch_success

\* lines 805-813 and 883-886, 976: dispatch_success is printed, True returned
DispatchBranchResult(dispatch_success) == "True"

DispatchReturned ==
    /\ wpc = "dispatching"
    /\ dpc = "done"
    /\ ReturnFrom([cyc EXCEPT !.dispatch_success = dresult],
                  DispatchBranchResult(dresult), "dispatched")
    /\ DispatcherIdle
    /\ UNCHANGED <<uiTaskButton, available_operators, slept, winput, wstop>>
    /\ UNCHANGED notWf

\* lines 892-902
FindDeliverAmount ==
    /\ wpc = "deliver"
    /\ \E deliver_amount \in DeliverReadings :
         IF ~deliver_amount.known
         THEN /\ winput' = Press("esc")
              /\ ReturnFrom([cyc EXCEPT !.escs = @ + 2], "False", "no deliver amount")
         ELSE /\ wpc' = "material"
              /\ cyc' = [cyc EXCEPT !.deliver_amount = deliver_amount.n]
              /\ UNCHANGED <<wresult, winput>>
    /\ UNCHANGED <<uiTaskButton, available_operators, slept, wstop>>
    /\ UNCHANGED <<dispVars, notWf>>

\* lines 907-932 and 327-332: the stock, the click on the material, the blue
\* button, and the amount still needed
ClickMaterial ==
    /\ wpc = "material"
    /\ \E blue \in BOOLEAN :
         LET warehouse_stock == WarehouseStock(cyc.stockRead)
             material_needed == cyc.deliver_amount - warehouse_stock
         IN  IF blue
             THEN /\ winput' = Click(BluePos)
                  /\ cyc' = [cyc EXCEPT !.warehouse_stock = warehouse_stock,
                                        !.material_needed = material_needed,
                                        !.stockUsed = TRUE]
                  /\ wpc' = "generate"
             ELSE /\ winput' = Click(NumberPos)
                  /\ cyc' = [cyc EXCEPT !.warehouse_stock = warehouse_stock]
                  /\ wpc' = "close"
    /\ UNCHANGED <<wresult, uiTaskButton, available_operators, slept, wstop>>
    /\ UNCHANGED <<dispVars, notWf>>

\* _dispatch_trains_for_material_generation, lines 375-416: one train
GenerateStep ==
    /\ wpc = "generate"
    /\ cyc.material_generated < cyc.material_needed
    /\ cyc.train_count < MaxTrains
    /\ cyc.outcome = ""
    /\ \E dispatched \in BOOLEAN :
         /\ winput' = IF dispatched THEN Click(DispatchPos) ELSE Click(TrainPos)
         /\ cyc' = [cyc EXCEPT
                      !.train_count = @ + 1,
                      !.material_generated =
                          IF dispatched THEN @ + AverageTrainCapacity ELSE @,
                      !.outcome = IF dispatched THEN "" ELSE "train failed"]
    /\ UNCHANGED <<wpc, wresult, uiTaskButton, available_operators, slept, wstop>>
    /\ UNCHANGED <<dispVars, notWf>>

\* lines 418-427 and 934-948: the loop is over; ESC twice
CloseGeneration ==
    /\ wpc = "generate"
    /\ \/ cyc.material_generated >= cyc.material_needed
       \/ cyc.train_count >= MaxTrains
       \/ cyc.outcome # ""
    /\ LET generation_success == cyc.material_generated >= cyc.material_needed
           c == [cyc EXCEPT !.escs = @ + 2]
       IN  IF AfterGeneration(generation_success) = "returned"
           THEN /\ ReturnFrom(c, "False",
                              IF generation_success THEN "generated" ELSE "incomplete")
                /\ winput' = Press("esc")
           ELSE /\ wpc' = "collect"
                /\ cyc' = c
                /\ winput' = Press("esc")
                /\ UNCHANGED wresult
    /\ UNCHANGED <<uiTaskButton, available_operators, slept, wstop>>
    /\ UNCHANGED <<dispVars, notWf>>

\* lines 955-959: the blue button was not found
CloseTaskDialog ==
    /\ wpc = "close"
    /\ winput' = Press("esc")
    /\ cyc' = [cyc EXCEPT !.escs = @ + 3]
    /\ wpc' = "warehouse"
    /\ UNCHANGED <<wresult, uiTaskButton, available_operators, slept, wstop>>
    /\ UNCHANGED <<dispVars, notWf>>

\* lines 962-971: open_warehouse, then the call of process_material_queue,
\* a method the class does not have
OpenWarehouse ==
    /\ wpc = "warehouse"
    /\ \E match \in BOOLEAN :
         IF match
         THEN /\ winput' = Click(StoragePos)
              /\ RaiseInWorkflow(cyc, "AttributeError")
         ELSE /\ ReturnFrom(cyc, "False", "missed")
              /\ UNCHANGED <<winput, wstop>>
    /\ UNCHANGED <<uiTaskButton, available_operators, slept>>
    /\ UNCHANGED <<dispVars, notWf>>

\* pyautogui raises FailSafeException from a click, press, moveTo or drag
\* made while the pointer is in the corner
EmergencyAbort ==
    /\ wpc \in CyclePcs
    /\ RaiseInWorkflow(cyc, "FailSafeException")
    /\ DispatcherIdle
    /\ UNCHANGED <<uiTaskButton, available_operators, slept, winput>>
    /\ UNCHANGED notWf

\* main lines 1011-1029
MainSleep ==
    /\ wpc = "returned"
    /\ \E text \in TimerTexts :
         LET success == wresult = "True"
             wait_time == IF success THEN None
                          ELSE ReadNextOperatorTimer(uiTaskButton, text)
         IN  slept' = [secs |-> SleepSeconds(success, wait_time),
                       since |-> TRUE,
                       wait_time |-> wait_time,
                       stale |-> ~success /\ uiTaskButton # NoPos /\ ~cyc.fresh,
                       region |-> IF success \/ uiTaskButton = NoPos THEN NoPos
                                  ELSE TimerRegion(uiTaskButton)]
    /\ wpc' = "loop"
    /\ UNCHANGED <<cyc, wresult, uiTaskButton, available_operators, winput, wstop>>
    /\ UNCHANGED <<dispVars, notWf>>

NextWorkflow ==
    \/ StartCycle
    \/ OpenTaskMenu
    \/ CollectCompleted
    \/ FindTask
    \/ FindMaterialNumbers
    \/ CollectThenDispatch
    \/ ClickTrain
    \/ CheckBeforeDispatch
    \/ DispatchTrain
    \/ CheckAfterDispatch
    \/ CheckTaskComplete
    \/ DispatchFailed
    \/ Summary
    \/ DispatchReturned
    \/ FindDeliverAmount
    \/ ClickMaterial
    \/ GenerateStep
    \/ CloseGeneration
    \/ CloseTaskDialog
    \/ OpenWarehouse
    \/ EmergencyAbort
    \/ MainSleep

SpecWorkflow == Init /\ [][NextWorkflow]_vars

----------------------------------------------------------------------------
(* Claims about the workflow cycle.                                        *)

\* C12: an unreadable quantity is never treated as zero: the amount still
\* needed is computed from the stock only when the stock was read.
C12_UnreadableNeverZero == cyc.stockUsed => cyc.stockRead.known

----------------------------------------------------------------------------
(* Part V. FreebieCollector.collect_freebies.                              *)

MaxFreebies == 4

\* the classes an except Exception clause catches: FailSafeException derives
\* from PyAutoGUIException, which derives from Exception
ExceptionClasses == {"FailSafeException", "PyAutoGUIException", "AttributeError"}

\* lines 64-66: except Exception, then on to the next attempt
FreebieHandler(exc) ==
    IF exc \in ExceptionClasses THEN "continue" ELSE "raise"

\* an exception raised inside the try block of lines 58-63
RaiseInFreebie(exc) ==
    /\ fraised' = fraised + 1
    /\ IF FreebieHandler(exc) = "continue"
       THEN /\ fswallowed' = fswallowed + 1
            /\ fattempt' = fattempt + 1
            /\ fpc' = "lookup"
       ELSE /\ fpc' = "aborted"
            /\ UNCHANGED <<fswallowed, fattempt>>

\* lines 29-35
CollectFreebies ==
    /\ fpc = "idle"
    /\ \E template_exists \in BOOLEAN :
         IF template_exists
         THEN fpc' = "lookup" /\ fresult' = fresult
         ELSE fpc' = "done" /\ fresult' = 0
    /\ fattempt' = 0
    /\ collected' = 0
    /\ UNCHANGED <<fraised, fswallowed>>
    /\ UNCHANGED notFb

\* lines 38-56 and 68-71: one lookup per attempt; no match ends the loop
FreebieLookup ==
    /\ fpc = "lookup"
    /\ \E match \in BOOLEAN :
         IF fattempt < MaxFreebies /\ match
         THEN fpc' = "click" /\ fresult' = fresult
         ELSE fpc' = "done" /\ fresult' = collected
    /\ UNCHANGED <<fattempt, collected, fraised, fswallowed>>
    /\ UNCHANGED notFb

\* lines 59-60: the click raises when the pointer is in the corner
FreebieClick ==
    /\ fpc = "click"
    /\ \E corner \in BOOLEAN :
         IF corner
         THEN /\ RaiseInFreebie("FailSafeException")
              /\ UNCHANGED collected
         ELSE /\ collected' = collected + 1
              /\ fpc' = "press"
              /\ UNCHANGED <<fattempt, fraised, fswallowed>>
    /\ UNCHANGED fresult
    /\ UNCHANGED notFb

\* lines 61-63: the ESC press raises when the pointer is in the corner
FreebiePress ==
    /\ fpc = "press"
    /\ \E corner \in BOOLEAN :
         IF corner
         THEN RaiseInFreebie("FailSafeException")
         ELSE /\ fattempt' = fattempt + 1
              /\ fpc' = "lookup"
              /\ UNCHANGED <<fraised, fswallowed>>
    /\ UNCHANGED <<collected, fresult>>
    /\ UNCHANGED notFb

NextFreebie ==
    \/ CollectFreebies
    \/ FreebieLookup
    \/ FreebieClick
    \/ FreebiePress

SpecFreebie == Init /\ [][NextFreebie]_vars

\* C13: an emergency abort raised in a freebie collection is never swallowed
\* by the collection: every one raised leaves collect_freebies.
C13_AbortNeverSwallowed == fswallowed = 0

\* how a cycle can fail short of the emergency abort
FailureOutcomes ==
    {"no operator", "missed", "no task", "no deliver amount", "incomplete",
     "AttributeError"}

C15_RedRoutesToResolve ==
    /\ cyc.path # "none" => (cyc.red <=> cyc.path = "resolve")
    /\ cyc.resolving => cyc.red
    /\ cyc.dispatched => ~cyc.red
    /\ wpc \in {"collect", "dispatching"} => cyc.path = "dispatch"
    /\ wpc \in {"deliver", "material", "generate", "close", "warehouse"}
         => cyc.path = "resolve"
    /\ ~(cyc.dispatched /\ cyc.resolving)

\* a card with a red and a black number, resolved to the end of the cycle
C15_Witness ==
    /\ wpc = "returned"
    /\ cyc.path = "resolve"
    /\ cyc.red
    /\ cyc.black
    /\ cyc.outcome = "generated"
    /\ ~cyc.dispatched

\* C16: a cycle that entered the red branch never calls
\* dispatch_trains_for_task: whatever the resolution came to, it presses ESC
\* at least twice and ends with False.
C16_ResolveNeverDispatches ==
    cyc.resolving
    => /\ ~cyc.dispatched
       /\ dpc = "idle"
       /\ wpc \in {"returned", "loop"} => wresult = "False" /\ cyc.escs >= 2

\* a resolution that generated enough, closed with two ESC presses
C16_Witness ==
    /\ wpc = "returned"
    /\ cyc.resolving
    /\ cyc.outcome = "generated"
    /\ cyc.train_count >= 1
    /\ cyc.escs = 2
    /\ wresult = "False"

----------------------------------------------------------------------------
(* Claims about the dispatch loop.                                         *)

\* the interpreter keeps running the call: a step that can be taken is taken
SpecDispatchFair == SpecDispatch /\ WF_vars(NextDispatch)

\* C17: a call of dispatch_trains_for_task ends, after at most MaxDispatches
\* passes of the loop and so at most MaxDispatches clicks on Dispatch, and
\* once a status read said that all trains are used no train and no Dispatch
\* button is clicked any more in that call.
C17_DispatchLoopBounded ==
    /\ [](/\ di < MaxDispatches
          /\ success_count <= di + 1
          /\ success_count <= MaxDispatches
          /\ lastRead = "used"
               => dpc \in {"summary", "done"} /\ dinput.kind # "click")
    /\ (dpc # "idle") ~> (dpc = "done")

\* the tenth pass dispatched the tenth train and then read the phrase
C17_Witness ==
    /\ dpc = "done"
    /\ di = MaxDispatches - 1
    /\ success_count = MaxDispatches
    /\ lastRead = "used"

----------------------------------------------------------------------------
(* Claims about main.                                                      *)

\* C18: after a cycle main sleeps the timer value plus the buffer when no
\* operator was free and the timer was read, and the poll interval in every
\* other case; every cycle starts after a sleep.
C18_SleepByAvailability ==
    /\ wpc = "loop" /\ cyc.outcome # ""
         => /\ slept.since
            /\ slept.secs = IF ~cyc.free /\ slept.wait_time.known
                            THEN slept.wait_time.n + TimerBuffer
                            ELSE PollInterval
    /\ wpc \in CyclePcs => cyc.afterSleep

\* C20: no position saved by an earlier cycle is read: the timer is read at
\* the place where the Task button was located in the same cycle.
C20_NoCarriedPosition == ~slept.stale

----------------------------------------------------------------------------
(* Part IV. TaskCardDetector.find_first_available_task.                    *)

MaxScrolls == 3
\* CARD_WIDTH, CARD_HEIGHT, CARD_START_X, CARD_START_Y and CARD_SPACING in
\* thousandths of the window
CardWidthPm == 260
CardHeightPm == 678
CardStartXPm == 80
CardStartYPm == 217
CardSpacingPm == 276
FixedPositions == 5

\* int(fraction * size)
Scaled(pm, size) == (pm * size) \div 1000

\* the x of the rectangles of card size the contour search can come up with:
\* 250 is a second contour of the card at 153
DetectXs == {153, 250, 682}

\* what is_task_locked, has_green_checkmark and has_black_text answer on a
\* card region
CardClasses ==
    {[locked |-> TRUE, green |-> TRUE, black |-> TRUE],
     [locked |-> FALSE, green |-> TRUE, black |-> FALSE],
     [locked |-> FALSE, green |-> FALSE, black |-> TRUE],
     [locked |-> FALSE, green |-> FALSE, black |-> FALSE]}

CardAt(x, y) ==
    [x |-> x, y |-> y,
     width |-> Scaled(CardWidthPm, Screen.width),
     height |-> Scaled(CardHeightPm, Screen.height)]

\* detected_cards.sort(key=lambda c: c['x'])
RECURSIVE SortedXs(_)
SortedXs(xs) ==
    IF xs = {} THEN <<>>
    ELSE LET x == SetMin(xs) IN <<x>> \o SortedXs(xs \ {x})

\* lines 119-130: a card closer than 30% of the card width to a card already
\* kept is a duplicate
RECURSIVE RemoveDuplicates(_, _)
RemoveDuplicates(sorted, filtered_cards) ==
    IF sorted = <<>> THEN filtered_cards
    ELSE LET x == Head(sorted)
             is_duplicate ==
                 \E k \in DOMAIN filtered_cards :
                     LET x_diff == IF x >= filtered_cards[k] THEN x - filtered_cards[k]
                                   ELSE filtered_cards[k] - x
                     IN  10 * x_diff < 3 * Scaled(CardWidthPm, Screen.width)
         IN  RemoveDuplicates(Tail(sorted),
                              IF is_duplicate THEN filtered_cards
                              ELSE Append(filtered_cards, x))

FindTaskCardsByRectangleDetection(xs) ==
    LET kept == RemoveDuplicates(SortedXs(xs), <<>>)
    IN  [k \in DOMAIN kept |-> CardAt(kept[k], Scaled(CardStartYPm, Screen.height))]

\* lines 164-196: the fixed positions that fit into the window
RECURSIVE FixedCards(_)
FixedCards(i) ==
    LET x == Scaled(CardStartXPm, Screen.width) + i * Scaled(CardSpacingPm, Screen.width)
    IN  IF i >= FixedPositions \/ x + Scaled(CardWidthPm, Screen.width) > Screen.width
        THEN <<>>
        ELSE <<CardAt(x, Scaled(CardStartYPm, Screen.height))>> \o FixedCards(i + 1)

FindTaskCards(xs) ==
    LET cards == FindTaskCardsByRectangleDetection(xs)
    IN  IF Len(cards) >= 1 THEN cards ELSE FixedCards(0)

\* a bug: the lock is not looked at
IsTaskAvailableNoLock(class) == class.green \/ class.black

IsTaskAvailable(class) ==
    IF class.locked THEN FALSE
    ELSE IF class.green THEN TRUE
    ELSE IF class.black THEN TRUE
    ELSE FALSE

GetClickPosition(card) ==
    [x |-> card.x + card.width \div 2 + 50, y |-> card.y + card.height \div 3]

\* where scroll_tasks_left starts its drag
ScrollStart ==
    [x |-> Screen.width \div 2,
     y |-> Scaled(CardStartYPm, Screen.height)
           + (CardHeightPm * Screen.height) \div 2000]
Drag(pos) == [kind |-> "drag", at |-> pos]

\* the first card of the view, left to right, that is_task_available accepts;
\* 0 when there is none
FirstAvailable(view) ==
    IF \E k \in DOMAIN view : IsTaskAvailable(view[k].class)
    THEN CHOOSE k \in DOMAIN view :
            /\ IsTaskAvailable(view[k].class)
            /\ \A j \in 1..(k - 1) : ~IsTaskAvailable(view[j].class)
    ELSE 0

\* line 420
FindFirstAvailableTask ==
    /\ cpc = "idle"
    /\ cpc' = "inspect"
    /\ scrolls_performed' = 0
    /\ cviews' = 0
    /\ UNCHANGED <<cview, cfallback, cresult, cinput>>
    /\ UNCHANGED notCard

\* lines 422-455: one pass of the while loop up to the scroll
InspectView ==
    /\ cpc = "inspect"
    /\ scrolls_performed <= MaxScrolls
    /\ \E xs \in SUBSET DetectXs :
         LET cards == FindTaskCards(xs)
         IN  \E classes \in [DOMAIN cards -> CardClasses] :
               LET view == [k \in DOMAIN cards |->
                              [card |-> cards[k], class |-> classes[k]]]
                   first == FirstAvailable(view)
               IN  /\ cview' = view
                   /\ cfallback' = (FindTaskCardsByRectangleDetection(xs) = <<>>)
                   /\ cviews' = cviews + 1
                   /\ IF cards = <<>>
                      THEN cpc' = "done" /\ cresult' = NoPos
                      ELSE IF first # 0
                      THEN cpc' = "done" /\ cresult' = GetClickPosition(view[first].card)
                      ELSE IF scrolls_performed < MaxScrolls
                      THEN cpc' = "scroll" /\ cresult' = cresult
                      ELSE cpc' = "done" /\ cresult' = NoPos
    /\ UNCHANGED <<scrolls_performed, cinput>>
    /\ UNCHANGED notCard

\* lines 450-452: scroll_tasks_left and the count
ScrollTasksLeft ==
    /\ cpc = "scroll"
    /\ cinput' = Drag(ScrollStart)
    /\ scrolls_performed' = scrolls_performed + 1
    /\ cpc' = "inspect"
    /\ UNCHANGED <<cview, cviews, cfallback, cresult>>
    /\ UNCHANGED notCard

NextCards ==
    \/ FindFirstAvailableTask
    \/ InspectView
    \/ ScrollTasksLeft

SpecCards == Init /\ [][NextCards]_vars

\* what the claim calls selectable: not locked, and a green mark or black text
Selectable(class) == ~class.locked /\ (class.green \/ class.black)

\* C19: the position returned is the click position of the leftmost
\* selectable card of the view inspected last, never of a locked card, and
\* every view inspected before had none; None is returned only after
\* MaxScrolls scrolls and MaxScrolls + 1 views without a selectable card.
C19_FirstSelectableCard ==
    /\ scrolls_performed <= MaxScrolls
    /\ cviews <= scrolls_performed + 1
    /\ cpc = "scroll" => \A k \in DOMAIN cview : ~Selectable(cview[k].class)
    /\ cpc = "done" /\ cresult # NoPos
         => \E k \in DOMAIN cview :
              /\ Selectable(cview[k].class)
              /\ ~cview[k].class.locked
              /\ cresult = GetClickPosition(cview[k].card)
              /\ \A j \in DOMAIN cview :
                   /\ j < k => ~Selectable(cview[j].class) /\ cview[j].card.x < cview[k].card.x
                   /\ j > k => cview[j].card.x > cview[k].card.x
    /\ cpc = "done" /\ cresult = NoPos
         => /\ \A k \in DOMAIN cview : ~Selectable(cview[k].class)
            /\ scrolls_performed = MaxScrolls
            /\ cviews = MaxScrolls + 1

\* after a scroll, a locked card with a green mark was passed over and the
\* card to its right returned
C19_Witness ==
    /\ cpc = "done"
    /\ scrolls_performed >= 1
    /\ Len(cview) >= 2
    /\ cview[1].class.locked /\ cview[1].class.green
    /\ cresult = GetClickPosition(cview[2].card)

\* C21: a call of dispatch_train that does not find the Dispatch button looks
\* for it exactly DispatchAttempts times and returns False without a click;
\* a lookup that finds it is followed by exactly one click and True.
C21_BoundedDispatchRetry ==
    /\ [](/\ attempt <= DispatchAttempts
          /\ dpc = "dispatch" => attempt < DispatchAttempts
          /\ dpc = "failed" => attempt = DispatchAttempts /\ dinput = Click(TrainPos))
    /\ [][/\ dpc = "dispatch" /\ dpc' = "failed"
             => UNCHANGED <<dinput, success_count>>
          /\ dpc = "dispatch" /\ dpc' = "dispatch"
             => attempt' = attempt + 1 /\ UNCHANGED <<dinput, success_count>>
          /\ dpc = "dispatch" /\ dpc' = "recheck"
             => /\ dinput' = Click(DispatchPos)
                /\ success_count' = success_count + 1
                /\ attempt' = attempt]_vars

\* three lookups missed the button: no click on Dispatch was made
C21_Witness ==
    /\ dpc = "failed"
    /\ attempt = DispatchAttempts
    /\ dinput = Click(TrainPos)
    /\ success_count = 0

----------------------------------------------------------------------------
(* Part VI. The readers. Each action is one call of a reader on arguments  *)
(* drawn from a small set; rd keeps the arguments and the value returned.  *)

\* most boxes in one list handed to the merge of quantity boxes
MaxQuantityBoxes == 3

\* a text of whitespace only
TextBlank == <<" ", " ">>
\* a target written in lower case with a double space
TargetTapLower ==
    <<"t", "a", "p", " ", " ", "t", "h", "e", " ", "t", "r", "a", "i", "n",
      " ", "t", "o">>

MatchTexts == StatusTexts \cup {TextBlank}
MatchTargets == {TapTheTrainTo, PleaseWaitUntil, TargetTapLower, TextBlank, <<>>}

\* one call of _fuzzy_text_match with the default threshold
FuzzyTextMatchCall ==
    /\ rd.fn = "none"
    /\ \E text \in MatchTexts, target \in MatchTargets :
         rd' = [fn |-> "_fuzzy_text_match", text |-> text, target |-> target,
                out |-> FuzzyTextMatch(text, target, MatchThreshold)]
    /\ UNCHANGED loc
    /\ UNCHANGED notCall

----------------------------------------------------------------------------
(* _ocr_number: three preprocessing variants, then the vote.               *)

DigitChars == <<"0", "1", "2", "3", "4", "5", "6", "7", "8", "9">>
IsDigit(c) == \E k \in DOMAIN DigitChars : DigitChars[k] = c
DigitValue(c) == (CHOOSE k \in DOMAIN DigitChars : DigitChars[k] = c) - 1

\* ''.join(filter(str.isdigit, text))
RECURSIVE FilterDigits(_)
FilterDigits(text) ==
    IF text = <<>> THEN <<>>
    ELSE IF IsDigit(Head(text)) THEN <<Head(text)>> \o FilterDigits(Tail(text))
    ELSE FilterDigits(Tail(text))

\* int(digits)
RECURSIVE ToInt(_)
ToInt(digits) ==
    IF digits = <<>> THEN 0
    ELSE 10 * ToInt(SubSeq(digits, 1, Len(digits) - 1)) + DigitValue(digits[Len(digits)])

\* what pytesseract can return for one variant
OcrTexts ==
    {<<>>, <<"\n">>, <<"7">>, <<"0", "7", "\n">>, <<"2", "4">>, <<"2", "4", "\n">>,
     <<"3">>, <<"1", "1">>}

\* the regions handed to _ocr_number: one too small to be read
Rois == {[width |-> 4, height |-> 12], [width |-> 30, height |-> 12]}

\* lines 460-482: the variants in the order OTSU, adaptive, fixed; a variant
\* without digits adds nothing
RECURSIVE OcrResults(_)
OcrResults(texts) ==
    IF texts = <<>> THEN <<>>
    ELSE LET digits == FilterDigits(Head(texts))
         IN  (IF digits # <<>> THEN <<ToInt(digits)>> ELSE <<>>)
             \o OcrResults(Tail(texts))

\* set(results) as CPython builds it for up to five small non-negative
\* ints: a table of 8 slots, an int hashed to itself, a taken slot followed by
\* the slot (5 i + 1 + perturb) mod 8 with perturb shifted right by 5 each time
EmptySlot == -1
RECURSIVE FreeSlot(_, _, _)
FreeSlot(table, i, perturb) ==
    IF table[i] = EmptySlot THEN i
    ELSE FreeSlot(table, (i * 5 + 1 + perturb \div 32) % 8, perturb \div 32)

RECURSIVE SetOf(_, _)
SetOf(results, table) ==
    IF results = <<>> THEN table
    ELSE LET v == Head(results)
         IN  SetOf(Tail(results),
                   IF \E i \in DOMAIN table : table[i] = v THEN table
                   ELSE [table EXCEPT ![FreeSlot(table, v % 8, v)] = v])

\* iteration over the set: the taken slots in the order of the table
RECURSIVE IterateFrom(_, _)
IterateFrom(table, i) ==
    IF i > 7 THEN <<>>
    ELSE (IF table[i] # EmptySlot THEN <<table[i]>> ELSE <<>>)
         \o IterateFrom(table, i + 1)

SetIteration(results) == IterateFrom(SetOf(results, [i \in 0..7 |-> EmptySlot]), 0)

\* results.count(v)
Count(results, v) == Cardinality({k \in DOMAIN results : results[k] = v})

\* max(iterable, key=results.count): the first item with the greatest key
MaxByCount(items, results) ==
    items[CHOOSE k \in DOMAIN items :
            /\ \A j \in DOMAIN items : Count(results, items[j]) <= Count(results, items[k])
            /\ \A j \in 1..(k - 1) : Count(results, items[j]) < Count(results, items[k])]

\* a bug: the first result, whatever the others say
OcrVoteFirst(results) ==
    IF results # <<>> THEN Some(results[1]) ELSE None

\* lines 485-489
OcrVote(results) ==
    IF results # <<>> THEN Some(MaxByCount(SetIteration(results), results))
    ELSE None

\* _ocr_number on a region and the texts OCR gives for its three variants
OcrNumber(roi, texts) ==
    IF roi.width < 5 \/ roi.height < 5 THEN None
    ELSE OcrVote(OcrResults(texts))

\* one call of _ocr_number
OcrNumberCall ==
    /\ rd.fn = "none"
    /\ \E roi \in Rois, text1 \in OcrTexts, text2 \in OcrTexts, text3 \in OcrTexts :
         LET texts == <<text1, text2, text3>>
         IN  rd' = [fn |-> "_ocr_number", roi |-> roi,
                    results |-> IF roi.width < 5 \/ roi.height < 5 THEN <<>>
                                ELSE OcrResults(texts),
                    variants |-> [k \in 1..3 |->
                                    IF FilterDigits(texts[k]) # <<>>
                                    THEN Some(ToInt(FilterDigits(texts[k])))
                                    ELSE None],
                    out |-> OcrNumber(roi, texts)]
    /\ UNCHANGED loc
    /\ UNCHANGED notCall

----------------------------------------------------------------------------
(* The merge of quantity boxes in _find_deliver_amount.                    *)

\* the bounding boxes of the contours: digits 10 wide on two lines
QuantityBoxes == [x : {0, 26, 38}, y : {0, 4}, w : {10}, h : {10}]
QuantityBoxLists == SeqsUpTo(QuantityBoxes, MaxQuantityBoxes)

\* valid_boxes.sort(key=lambda b: b[0]): stable, ascending x
RECURSIVE InsertBoxByX(_, _)
InsertBoxByX(sorted, box) ==
    IF sorted = <<>> THEN <<box>>
    ELSE IF box.x < Head(sorted).x THEN <<box>> \o sorted
    ELSE <<Head(sorted)>> \o InsertBoxByX(Tail(sorted), box)

RECURSIVE SortBoxesByX(_)
SortBoxesByX(boxes) ==
    IF boxes = <<>> THEN <<>>
    ELSE InsertBoxByX(SortBoxesByX(SubSeq(boxes, 1, Len(boxes) - 1)), boxes[Len(boxes)])

\* lines 552-553: y_diff < 5 and x_gap < avg_width * 1.5
ShouldMerge(curr, next) ==
    LET y_diff == IF curr.y >= next.y THEN curr.y - next.y ELSE next.y - curr.y
        x_gap == next.x - (curr.x + curr.w)
    IN  y_diff < 5 /\ 4 * x_gap < 3 * (curr.w + next.w)

\* lines 554-558
MergedBox(curr, next) ==
    [x |-> curr.x,
     y |-> Min(curr.y, next.y),
     w |-> (next.x + next.w) - curr.x,
     h |-> Max(curr.h, next.h)]

\* lines 545-563: the loop over valid_boxes[1:]
RECURSIVE MergeLoop(_, _, _)
MergeLoop(current_box, rest, merged_boxes) ==
    IF rest = <<>> THEN Append(merged_boxes, current_box)
    ELSE IF ShouldMerge(current_box, Head(rest))
    THEN MergeLoop(MergedBox(current_box, Head(rest)), Tail(rest), merged_boxes)
    ELSE MergeLoop(Head(rest), Tail(rest), Append(merged_boxes, current_box))

\* lines 540-563; the empty list is returned before the merge (line 540)
MergeQuantityBoxes(valid_boxes) ==
    IF valid_boxes = <<>> THEN <<>>
    ELSE LET sorted == SortBoxesByX(valid_boxes)
         IN  MergeLoop(Head(sorted), Tail(sorted), <<>>)

\* one merge of a box list, and the merge of what it returned
MergeQuantityBoxesCall ==
    /\ rd.fn = "none"
    /\ \E valid_boxes \in QuantityBoxLists :
         LET merged_boxes == MergeQuantityBoxes(valid_boxes)
         IN  rd' = [fn |-> "merge", valid_boxes |-> valid_boxes,
                    out |-> merged_boxes,
                    again |-> MergeQuantityBoxes(merged_boxes)]
    /\ UNCHANGED loc
    /\ UNCHANGED notCall

----------------------------------------------------------------------------
(* More readers: OperatorChecker.has_available_operators                   *)
(* (src/operator_checker.py) and FactoryAutomation._fix_ocr_errors         *)
(* (src/src/core/factory_automation.py), each as one call recorded in rd.  *)

\* one call of has_available_operators; display: the operator display was
\* found on the screen
HasAvailableOperatorsCall ==
    /\ rd.fn = "none"
    /\ \E display \in BOOLEAN :
         rd' = [fn |-> "has_available_operators", display |-> display,
                operator_count |-> ReadOperatorCount(display),
                out |-> HasAvailableOperators(display)]
    /\ UNCHANGED loc
    /\ UNCHANGED notCall

\* text.replace(old, new)
Replace(text, old, new) ==
    [i \in 1..Len(text) |-> IF text[i] = old THEN new ELSE text[i]]

\* _fix_ocr_errors, lines 503-506: the four character substitutions
Substituted(text) ==
    Replace(Replace(Replace(Replace(text, "T", "7"), "l", "1"), "I", "1"),
            "O", "0")

\* '/' in text, and text.isdigit() for the characters OCR returns
HasSlash(text) == \E i \in 1..Len(text) : text[i] = "/"
IsDigitText(text) == text # <<>> /\ \A i \in 1..Len(text) : IsDigit(text[i])

\* text[:k] + '/' + text[k:]
SlashAfter(text, k) ==
    SubSeq(text, 1, k) \o <<"/">> \o SubSeq(text, k + 1, Len(text))

\* FactoryAutomation._fix_ocr_errors, lines 484-526
FixOcrErrors(raw) ==
    LET text == Substituted(raw)
    IN  IF ~HasSlash(text) /\ Len(text) >= 4 /\ IsDigitText(text)
        THEN IF Len(text) = 4 THEN SlashAfter(text, 2)
             ELSE IF Len(text) = 5 THEN SlashAfter(text, 2)
             ELSE SlashAfter(text, Len(text) \div 2)
        ELSE text

\* texts OCR returns for a requirement
RawTexts ==
    {<<"2", "4", "1", "8", "0">>,
     <<"T", "2", "4", "3", "0">>,
     <<"2", "4", "/", "8", "0">>,
     <<"2", "/", "5">>,
     <<"l", "0", "/", "2", "O">>,
     <<"7", "2", "3", "0">>,
     <<"1", "2", "3", "4", "5", "6">>,
     <<"T", "2">>,
     <<"1", "2", "a", "4", "5">>,
     <<>>,
     <<"I", "O", "2", "5">>,
     <<"4", "/", "1", "0">>}

\* one call of _fix_ocr_errors
FixOcrErrorsCall ==
    /\ rd.fn = "none"
    /\ \E text \in RawTexts :
         rd' = [fn |-> "_fix_ocr_errors", text |-> text, out |-> FixOcrErrors(text)]
    /\ UNCHANGED loc
    /\ UNCHANGED notCall

\* a reading of the status region that holds both of the game's lines
TextBothLines ==
    <<"T", "A", "P", " ", "T", "H", "E", " ", "T", "R", "A", "I", "N", " ",
      "T", "O", " ", "D", "I", "S", "P", "A", "T", "C", "H", "\n", "P", "L",
      "E", "A", "S", "E", " ", "W", "A", "I", "T", " ", "U", "N", "T", "I",
      "L">>

\* one reading handed to both status predicates; fallback: the
\* AlltrainsUsed template is found
StatusPredicatesCall ==
    /\ rd.fn = "none"
    /\ \E text \in StatusTexts \cup {TextBothLines}, fallback \in BOOLEAN :
         rd' = [fn |-> "status", text |-> text, fallback |-> fallback,
                available |-> CheckTrainsAvailableByText(text),
                used |-> CheckAllTrainsUsed(text, fallback)]
    /\ UNCHANGED loc
    /\ UNCHANGED notCall

NextReaders ==
    \/ FuzzyTextMatchCall
    \/ OcrNumberCall
    \/ MergeQuantityBoxesCall
    \/ HasAvailableOperatorsCall
    \/ FixOcrErrorsCall
    \/ StatusPredicatesCall

SpecReaders == Init /\ [][NextReaders]_vars

----------------------------------------------------------------------------
(* Claims about the readers.                                               *)

\* C22: with both strings upper-cased and their whitespace collapsed, the
\* matcher accepts exactly when the target is a substring of the text or the
\* similarity ratio reaches the threshold; an empty text or target is
\* rejected; "TAP THE TRAIN TO DISPATCH" matches "TAP THE TRAIN TO", with a
\* ratio of 32/41.
C22_SubstringOrRatio ==
    /\ Normalize(TextTapLower) = TextTapDispatch
    /\ Normalize(TargetTapLower) = TapTheTrainTo
    /\ rd.fn = "_fuzzy_text_match"
         => LET text == Normalize(rd.text)
                target == Normalize(rd.target)
            IN  /\ rd.text = <<>> \/ rd.target = <<>> => ~rd.out
                /\ rd.text # <<>> /\ rd.target # <<>>
                     => (rd.out <=> \/ IsSubstring(target, text)
                                    \/ RatioAtLeast(text, target, MatchThreshold))
                /\ text = TextTapDispatch /\ target = TapTheTrainTo
                     => /\ rd.out
                        /\ MatchingChars(text, target, 1, 25, 1, 16) = 16
                        /\ 2 * 16 * 100 >= MatchThreshold * (25 + 16)

\* the scenario of the claim, on the text as OCR gives it
C22_Witness ==
    /\ rd.fn = "_fuzzy_text_match"
    /\ rd.text = TextTapLower
    /\ rd.target = TapTheTrainTo
    /\ rd.out

\* the region is large enough for the variants to be run
Readable(roi) == roi.width >= 5 /\ roi.height >= 5

\* C23: a number that at least two of the three variants yield is returned;
\* a variant without digits has no vote; None is returned only when no
\* variant yields digits.
C23_MajorityVote ==
    rd.fn = "_ocr_number" /\ Readable(rd.roi)
    => /\ \A k \in 1..3, j \in 1..3 :
            k # j /\ rd.variants[k].known /\ rd.variants[k] = rd.variants[j]
            => rd.out = rd.variants[k]
       /\ Len(rd.results) = Cardinality({k \in 1..3 : rd.variants[k].known})
       /\ rd.out = None <=> \A k \in 1..3 : ~rd.variants[k].known
       /\ rd.out.known => \E k \in 1..3 : rd.variants[k] = rd.out

\* the variants give 24, 24 and 7
C23_Witness ==
    /\ rd.fn = "_ocr_number"
    /\ Readable(rd.roi)
    /\ rd.variants = <<Some(24), Some(24), Some(7)>>
    /\ rd.out = Some(24)

\* C24: when the variants that yield digits give numbers that all differ,
\* the number of the first of them in the order OTSU, adaptive, fixed is
\* returned.
C24_FirstWhenAllDiffer ==
    rd.fn = "_ocr_number" /\ Readable(rd.roi) /\ rd.results # <<>>
      /\ (\A k \in DOMAIN rd.results, j \in DOMAIN rd.results :
             k # j => rd.results[k] # rd.results[j])
    => rd.out = Some(rd.results[1])

\* C25: merging the output of the merge again returns the same list.
C25_MergeIdempotent ==
    rd.fn = "merge" => rd.again = rd.out

----------------------------------------------------------------------------
(* Part VII: the locator (src/src/detectors/template_matcher.py) and the   *)
(* two callers that turn capture offsets into click points themselves      *)
(* (src/material_scanner.py, src/task_automation.py).                      *)
(*                                                                         *)
(* A display is the logical size pyautogui.size() reports and the size of  *)
(* the full screenshot; the two agree on a plain display and differ on a   *)
(* HiDPI one.  The scale factor is kept as a reduced fraction num/den: the *)
(* factors drawn here (1, 5/4, 3/2, 2) are exact in binary floating point, and  *)
(* every product and quotient formed from them below is far from the next  *)
(* integer, so int() of the float equals the integer division used here.   *)
(* A screenshot is never smaller than the logical screen.                  *)

Displays ==
    { [screen_width |-> 1440, screen_height |-> 900,
       screenshot_width |-> (1440 * k) \div 4,
       screenshot_height |-> (900 * k) \div 4]
      : k \in {4, 5, 6, 8} }

RECURSIVE GCD(_, _)
GCD(a, b) == IF b = 0 THEN a ELSE GCD(b, a % b)

\* get_scale_factor, lines 20-41: (scale_x + scale_y) / 2
GetScaleFactor(d) ==
    LET num == d.screenshot_width * d.screen_height
               + d.screenshot_height * d.screen_width
        den == 2 * d.screen_width * d.screen_height
        g   == GCD(num, den)
    IN  [num |-> num \div g, den |-> den \div g]

\* int(p * scale_factor), lines 85-88
ToPhysical(p, s) == (p * s.num) \div s.den

\* the same division with the factor left out
ToLogicalUnscaled(q, s) == q

\* int(q / scale_factor), lines 122-128
ToLogical(q, s) == (q * s.den) \div s.num

\* region=None and a region tuple (x, y, width, height) in logical pixels
NoRegion == [given |-> FALSE, x |-> 0, y |-> 0, w |-> 0, h |-> 0]
Region(x, y, w, h) == [given |-> TRUE, x |-> x, y |-> y, w |-> w, h |-> h]
Regions == {NoRegion, Region(100, 200, 50, 50), Region(100, 200, 50, 100),
            Region(100, 200, 400, 300)}

\* what cv2.imread returns: None for a file that cannot be read, else an
\* image of the template's size in capture pixels
Templates == {[loaded |-> FALSE, w |-> 0, h |-> 0],
              [loaded |-> TRUE, w |-> 80, h |-> 80]}

\* the three ways a locator call ends
LocNone == [kind |-> "None"]
LocRaised(exc) == [kind |-> "raised", exc |-> exc]
LocMatch(x, y, width, height) ==
    [kind |-> "match", x |-> x, y |-> y, width |-> width, height |-> height]

\* lines 68-91: the size of the image that is searched.  A region capture
\* and a crop of a given screenshot cover the region's logical extent in
\* capture pixels; without a region it is the whole screenshot.
SearchImage(d, region) ==
    IF region.given
    THEN [w |-> ToPhysical(region.w, GetScaleFactor(d)),
          h |-> ToPhysical(region.h, GetScaleFactor(d))]
    ELSE [w |-> d.screenshot_width, h |-> d.screenshot_height]

\* cv2.matchTemplate, line 102: OpenCV swaps image and template when the
\* image is no larger than the template in both dimensions, and fails its
\* size assertion (cv2.error) when it is smaller in one and larger in the
\* other.  The value is the size of the result map, or <<>> for the error.
MatchTemplate(image, template) ==
    LET needswap == image.h < template.h \/ image.w < template.w
    IN  IF needswap /\ ~(image.h <= template.h /\ image.w <= template.w)
        THEN <<>>
        ELSE IF needswap
        THEN <<[w |-> template.w - image.w + 1, h |-> template.h - image.h + 1]>>
        ELSE <<[w |-> image.w - template.w + 1, h |-> image.h - template.h + 1]>>

\* the places of the result map a best match is drawn from
MaxLocs(map) == {[x |-> 0, y |-> 0], [x |-> map.w - 1, y |-> map.h - 1],
                 [x |-> (map.w - 1) \div 2, y |-> 0]}

\* find_template_on_screen, lines 44-129.  found: max_val >= threshold;
\* max_loc: where minMaxLoc puts the best match in the result map.
FindTemplateOnScreen(d, template, region, found, max_loc) ==
    LET image == SearchImage(d, region)
        region_x == IF region.given THEN region.x ELSE 0
        region_y == IF region.given THEN region.y ELSE 0
        s == GetScaleFactor(d)
        center_x == max_loc.x + template.w \div 2
        center_y == max_loc.y + template.h \div 2
    IN  IF ~template.loaded THEN LocRaised("FileNotFoundError")
        ELSE IF MatchTemplate(image, template) = <<>> THEN LocRaised("cv2.error")
        ELSE IF ~found THEN LocNone
        ELSE LocMatch(ToLogical(center_x, s) + region_x,
                      ToLogical(center_y, s) + region_y,
                      ToLogical(template.w, s), ToLogical(template.h, s))

\* one call of find_template_on_screen
FindTemplateOnScreenCall ==
    /\ loc.fn = "none"
    /\ \E d \in Displays, template \in Templates, region \in Regions,
          found \in BOOLEAN :
         LET map == MatchTemplate(SearchImage(d, region), template)
             locs == IF template.loaded /\ map # <<>> /\ found
                     THEN MaxLocs(map[1]) ELSE {[x |-> 0, y |-> 0]}
         IN  \E max_loc \in locs :
               loc' = [fn |-> "find_template_on_screen", d |-> d,
                       template |-> template, region |-> region,
                       found |-> found, max_loc |-> max_loc,
                       out |-> FindTemplateOnScreen(d, template, region,
                                                    found, max_loc)]
    /\ UNCHANGED rd
    /\ UNCHANGED notCall

\* the places of a result map that reach the threshold, each with its score
\* in percent; the first three are neighbouring pixels, and so are the last
\* two; the others lie 70 pixels or more apart
Hits == {[x |-> 10, y |-> 10, confidence |-> 95],
         [x |-> 11, y |-> 10, confidence |-> 90],
         [x |-> 10, y |-> 11, confidence |-> 85],
         [x |-> 70, y |-> 10, confidence |-> 80],
         [x |-> 140, y |-> 10, confidence |-> 75],
         [x |-> 210, y |-> 10, confidence |-> 70],
         [x |-> 280, y |-> 10, confidence |-> 65],
         [x |-> 70, y |-> 100, confidence |-> 60],
         [x |-> 71, y |-> 100, confidence |-> 55]}

HitsIn(map) == {pt \in Hits : pt.x < map.w /\ pt.y < map.h}

\* np.where walks the result map row by row: by y, then by x
RowBefore(a, b) == a.y < b.y \/ (a.y = b.y /\ a.x < b.x)

RECURSIVE RowMajor(_)
RowMajor(points) ==
    IF points = {} THEN <<>>
    ELSE LET first == CHOOSE a \in points :
                        \A b \in points \ {a} : RowBefore(a, b)
         IN  <<first>> \o RowMajor(points \ {first})

LocList(matches) == [kind |-> "list", matches |-> matches]

\* find_all_matches, lines 132-204: one match per place of the result map
\* that reaches the threshold, in np.where order
FindAllMatches(d, template, region, locations) ==
    LET image == SearchImage(d, region)
        region_x == IF region.given THEN region.x ELSE 0
        region_y == IF region.given THEN region.y ELSE 0
        s == GetScaleFactor(d)
        MatchAt(pt) ==
            [x |-> ToLogical(pt.x + template.w \div 2, s) + region_x,
             y |-> ToLogical(pt.y + template.h \div 2, s) + region_y,
             confidence |-> pt.confidence,
             width |-> ToLogical(template.w, s),
             height |-> ToLogical(template.h, s)]
    IN  IF ~template.loaded THEN LocRaised("FileNotFoundError")
        ELSE IF MatchTemplate(image, template) = <<>> THEN LocRaised("cv2.error")
        ELSE LocList([i \in 1..Len(locations) |-> MatchAt(locations[i])])

\* one call of find_all_matches
FindAllMatchesCall ==
    /\ loc.fn = "none"
    /\ \E d \in Displays, template \in Templates, region \in Regions :
         LET map == MatchTemplate(SearchImage(d, region), template)
             hits == IF template.loaded /\ map # <<>>
                     THEN SUBSET HitsIn(map[1]) ELSE {{}}
         IN  \E points \in hits :
               loc' = [fn |-> "find_all_matches", d |-> d,
                       template |-> template, region |-> region,
                       locations |-> RowMajor(points),
                       out |-> FindAllMatches(d, template, region,
                                              RowMajor(points))]
    /\ UNCHANGED rd
    /\ UNCHANGED notCall

\* material_scanner.py line 276: matches.sort(key=confidence, reverse=True);
\* the sort is stable
RECURSIVE SortByConfidence(_)
SortByConfidence(matches) ==
    IF matches = <<>> THEN <<>>
    ELSE LET best == CHOOSE i \in 1..Len(matches) :
                       /\ \A j \in 1..Len(matches) :
                            matches[j].confidence <= matches[i].confidence
                       /\ \A j \in 1..(i - 1) :
                            matches[j].confidence < matches[i].confidence
             rest == [j \in 1..(Len(matches) - 1) |->
                        IF j < best THEN matches[j] ELSE matches[j + 1]]
         IN  <<matches[best]>> \o SortByConfidence(rest)

Abs(n) == IF n < 0 THEN -n ELSE n

DuplicateDistance == 30
MaxUniqueMatches == 5

\* material_scanner.py lines 277-285
\* a duplicate pass that removes nothing
UniqueMatchesAll(matches, unique_matches) == matches

RECURSIVE UniqueMatches(_, _)
UniqueMatches(matches, unique_matches) ==
    IF matches = <<>> THEN unique_matches
    ELSE LET match == Head(matches)
             is_duplicate ==
                 \E i \in 1..Len(unique_matches) :
                   /\ Abs(match.x - unique_matches[i].x) < DuplicateDistance
                   /\ Abs(match.y - unique_matches[i].y) < DuplicateDistance
         IN  UniqueMatches(Tail(matches),
                           IF is_duplicate THEN unique_matches
                           ELSE Append(unique_matches, match))

\* MaterialScanner._find_material_with_features, material_scanner.py lines
\* 208-289, called with the card's logical origin as offset (line 133) on a
\* capture of the card (line 126)
\* lines 255-272: one match per place that reaches the threshold
FeatureMatches(d, card, template, locations) ==
    LET scale_factor == GetScaleFactor(d)
        MatchAt(pt) ==
            [x |-> ToLogical(card.x + pt.x, scale_factor),
             y |-> ToLogical(card.y + pt.y, scale_factor),
             width |-> ToLogical(template.w, scale_factor),
             height |-> ToLogical(template.h, scale_factor),
             confidence |-> pt.confidence]
    IN  [i \in 1..Len(locations) |-> MatchAt(locations[i])]

FindMaterialWithFeatures(d, card, template, locations) ==
    LET card_image == SearchImage(d, card)
        matches == FeatureMatches(d, card, template, locations)
        unique_matches == UniqueMatches(SortByConfidence(matches), <<>>)
    IN  IF ~template.loaded THEN LocList(<<>>)
        ELSE IF MatchTemplate(card_image, template) = <<>>
        THEN LocRaised("cv2.error")
        ELSE LocList(SubSeq(unique_matches, 1,
                            Min(MaxUniqueMatches, Len(unique_matches))))

Cards == {r \in Regions : r.given}

\* one call of _find_material_with_features from find_materials_on_card
FindMaterialWithFeaturesCall ==
    /\ loc.fn = "none"
    /\ \E d \in Displays, template \in Templates, card \in Cards :
         LET map == MatchTemplate(SearchImage(d, card), template)
             hits == IF template.loaded /\ map # <<>>
                     THEN SUBSET HitsIn(map[1]) ELSE {{}}
         IN  \E points \in hits :
               loc' = [fn |-> "_find_material_with_features", d |-> d,
                       template |-> template, region |-> card,
                       locations |-> RowMajor(points),
                       out |-> FindMaterialWithFeatures(d, card, template,
                                                        RowMajor(points))]
    /\ UNCHANGED rd
    /\ UNCHANGED notCall

\* detection_config.py: MATERIAL_ZONE_START in thousandths, and the size a
\* contour must have to count as a number
MaterialZoneStartPm == 380
NumberMinWidth == 10
NumberMaxWidth == 60
NumberMinHeight == 10
NumberMaxHeight == 30

\* bounding boxes of contours in the capture of the material zone, in
\* capture pixels; the last is too small to be a number
Contours == {[x |-> 20, y |-> 6, w |-> 10, h |-> 12],
             [x |-> 121, y |-> 7, w |-> 24, h |-> 12],
             [x |-> 60, y |-> 2, w |-> 4, h |-> 4]}

\* the contours as a list, left to right
RECURSIVE ContourList(_)
ContourList(S) ==
    IF S = {} THEN <<>>
    ELSE LET e == CHOOSE e \in S : \A o \in S : e.x <= o.x
         IN  <<e>> \o ContourList(S \ {e})

\* TaskAutomation._find_material_numbers, task_automation.py lines 586-664:
\* the positions of the contours that pass the size filter
RECURSIVE MaterialNumberPositions(_, _, _)
MaterialNumberPositions(card, contours, number_positions) ==
    IF contours = <<>> THEN number_positions
    ELSE LET c == Head(contours)
             material_y_start == Scaled(MaterialZoneStartPm, card.h)
             skipped == \/ c.w < NumberMinWidth \/ c.w > NumberMaxWidth
                        \/ c.h < NumberMinHeight \/ c.h > NumberMaxHeight
             position == [x |-> card.x + c.x + c.w \div 2,
                          y |-> card.y + material_y_start + c.y + c.h \div 2]
         IN  MaterialNumberPositions(card, Tail(contours),
                 IF skipped THEN number_positions
                 ELSE Append(number_positions, position))

\* the contours of number_positions, in the same order
RECURSIVE KeptContours(_)
KeptContours(contours) ==
    IF contours = <<>> THEN <<>>
    ELSE LET c == Head(contours)
             skipped == \/ c.w < NumberMinWidth \/ c.w > NumberMaxWidth
                        \/ c.h < NumberMinHeight \/ c.h > NumberMaxHeight
         IN  IF skipped THEN KeptContours(Tail(contours))
             ELSE <<c>> \o KeptContours(Tail(contours))

\* one call of _find_material_numbers on a card
FindMaterialNumbersCall ==
    /\ loc.fn = "none"
    /\ \E d \in Displays, card \in Cards, found \in SUBSET Contours :
         loc' = [fn |-> "_find_material_numbers", d |-> d, region |-> card,
                 contours |-> ContourList(found),
                 out |-> LocList(MaterialNumberPositions(card, ContourList(found),
                                                         <<>>))]
    /\ UNCHANGED rd
    /\ UNCHANGED notCall

\* logical coordinates that are converted to capture pixels and back
LogicalPoints == (0 .. 40) \cup {719, 899, 1439}

\* a logical coordinate taken to capture pixels (lines 85-88) and back
\* (lines 122-128) under the factor of one display
ConvertAndBack ==
    /\ loc.fn = "none"
    /\ \E d \in Displays, p \in LogicalPoints :
         LET s == GetScaleFactor(d)
             q == ToPhysical(p, s)
         IN  loc' = [fn |-> "convert", d |-> d, p |-> p, q |-> q,
                     back |-> ToLogical(q, s)]
    /\ UNCHANGED rd
    /\ UNCHANGED notCall

NextLocator ==
    \/ FindTemplateOnScreenCall
    \/ FindAllMatchesCall
    \/ FindMaterialWithFeaturesCall
    \/ FindMaterialNumbersCall
    \/ ConvertAndBack

SpecLocator == Init /\ [][NextLocator]_vars

----------------------------------------------------------------------------
(* Claims about the locator.                                               *)

\* C26: find_all_matches never returns two matches whose centres are within
\* the duplicate distance of each other on both axes.
C26_NoTwoWithinRadius ==
    (loc.fn = "find_all_matches" /\ loc.out.kind = "list") =>
        \A i, j \in 1..Len(loc.out.matches) :
            i # j =>
              ~ /\ Abs(loc.out.matches[i].x - loc.out.matches[j].x)
                     < DuplicateDistance
                /\ Abs(loc.out.matches[i].y - loc.out.matches[j].y)
                     < DuplicateDistance

\* the searched image is smaller than the loaded template in a dimension
SmallerThanTemplate(d, region, template) ==
    /\ template.loaded
    /\ \/ SearchImage(d, region).w < template.w
       \/ SearchImage(d, region).h < template.h

\* C27: when the search area is smaller than the template in either
\* dimension, find_template_on_screen returns None and find_all_matches the
\* empty list; neither raises.
C27_SmallAreaNotFound ==
    /\ (/\ loc.fn = "find_template_on_screen"
        /\ SmallerThanTemplate(loc.d, loc.region, loc.template))
         => loc.out = LocNone
    /\ (/\ loc.fn = "find_all_matches"
        /\ SmallerThanTemplate(loc.d, loc.region, loc.template))
         => loc.out = LocList(<<>>)

\* C28: every point a locating function returns is the logical origin of
\* the captured region plus the offset inside the capture divided by the
\* scale factor: find_template_on_screen, _find_material_with_features and
\* _find_material_numbers alike.
C28_ConvertedExactlyOnce ==
    LET s == GetScaleFactor(loc.d)
    IN  /\ (loc.fn = "find_template_on_screen" /\ loc.out.kind = "match") =>
              /\ loc.out.x = (IF loc.region.given THEN loc.region.x ELSE 0)
                             + ToLogical(loc.max_loc.x + loc.template.w \div 2, s)
              /\ loc.out.y = (IF loc.region.given THEN loc.region.y ELSE 0)
                             + ToLogical(loc.max_loc.y + loc.template.h \div 2, s)
        /\ (loc.fn = "_find_material_with_features" /\ loc.out.kind = "list") =>
              \A i \in 1..Len(loc.out.matches) :
                \E k \in 1..Len(loc.locations) :
                  /\ loc.out.matches[i].x
                       = loc.region.x + ToLogical(loc.locations[k].x, s)
                  /\ loc.out.matches[i].y
                       = loc.region.y + ToLogical(loc.locations[k].y, s)
        /\ loc.fn = "_find_material_numbers" =>
              LET kept == KeptContours(loc.contours)
              IN  \A i \in 1..Len(loc.out.matches) :
                    /\ loc.out.matches[i].x
                         = loc.region.x
                           + ToLogical(kept[i].x + kept[i].w \div 2, s)
                    /\ loc.out.matches[i].y
                         = loc.region.y
                           + Scaled(MaterialZoneStartPm, loc.region.h)
                           + ToLogical(kept[i].y + kept[i].h \div 2, s)

\* C29: a logical coordinate taken to capture pixels and back under the
\* scale factor of a display comes back within one pixel of itself.
C29_RoundTripWithinOne ==
    loc.fn = "convert" => Abs(loc.back - loc.p) <= 1

\* a round trip under the factor 3/2 that loses a pixel
C29_Witness ==
    /\ loc.fn = "convert"
    /\ GetScaleFactor(loc.d) = [num |-> 3, den |-> 2]
    /\ loc.q = ToPhysical(loc.p, GetScaleFactor(loc.d))
    /\ loc.p > 0
    /\ loc.back = loc.p - 1

\* C30: a template that fails to load never makes a locating function
\* raise: the function reports nothing found.
C30_LoadFailureNotFound ==
    (/\ loc.fn \in {"find_template_on_screen", "find_all_matches",
                    "_find_material_with_features"}
     /\ ~loc.template.loaded)
        => loc.out \in {LocNone, LocList(<<>>)}

----------------------------------------------------------------------------
(* Part VIII: ResourceGenerator.craft_in_factory                           *)
(* (src/resource_generator.py).  cif.stack holds the active calls,         *)
(* outermost first; a frame's acted says whether the call has read the     *)
(* screen or injected an input; cif.ended is the call that returned last.  *)

MaxCraftingDepth == 5

\* line 301 with the bound one level further down
DepthReachedLate(depth) == depth >= MaxCraftingDepth + 1

\* line 301: if depth >= self.max_crafting_depth
DepthReached(depth) == depth >= MaxCraftingDepth

\* detect_red_text_in_factory_popup, lines 162-219: (False, None), or True
\* with the centre of the largest red region
NoRed == [has_red |-> FALSE, at |-> NoPos]
RedReadings == {NoRed, [has_red |-> TRUE, at |-> [x |-> 700, y |-> 400]],
                [has_red |-> TRUE, at |-> [x |-> 560, y |-> 420]],
                [has_red |-> TRUE, at |-> [x |-> 500, y |-> 60]]}

IconOffset == 80

\* find_material_icon_above_red_text, lines 221-254: the first offset is
\* the smallest, so the later ones give a valid place only when it does
MaterialIconAboveRedText(red) ==
    IF red.y - IconOffset > 0 THEN [x |-> red.x, y |-> red.y - IconOffset]
    ELSE NoPos

\* find_and_click_confirm_button, lines 256-282: the matched place or the
\* estimated one; the button is clicked and True returned either way
ConfirmPlaces == {ConfirmPos, [x |-> 720, y |-> 585]}

\* a call as it is entered; icon is its local (icon_x, icon_y)
CifFrame(depth) ==
    [depth |-> depth, pc |-> "enter", acted |-> FALSE, icon |-> NoPos]
CifTop == cif.stack[Len(cif.stack)]
CifSetTop(f) == [cif.stack EXCEPT ![Len(cif.stack)] = f]

\* the top call returns value, having injected event last (NoInput: none)
CifReturn(frame, value, event) ==
    cif' = [cif EXCEPT
              !.stack = SubSeq(@, 1, Len(@) - 1),
              !.ret = IF Len(cif.stack) = 1 THEN "none" ELSE value,
              !.result = IF Len(cif.stack) = 1 THEN value ELSE @,
              !.ended = <<[depth |-> frame.depth, acted |-> frame.acted,
                           value |-> value]>>,
              !.input = IF event = NoInput THEN @ ELSE event]

\* generate_resource, line 463: craft_in_factory(material_icon_path)
CraftInFactory ==
    /\ cif.result = "idle"
    /\ cif' = [cif EXCEPT !.stack = <<CifFrame(0)>>, !.result = "running"]
    /\ UNCHANGED <<gen, ert>>
    /\ UNCHANGED notProc

\* lines 301-315: the depth test, then the read of the popup
CifDetectRed ==
    /\ cif.stack # <<>>
    /\ CifTop.pc = "enter"
    /\ cif.ret = "none"
    /\ IF DepthReached(CifTop.depth)
       THEN CifReturn(CifTop, "False", NoInput)
       ELSE \E reading \in RedReadings :
              LET f == [CifTop EXCEPT !.acted = TRUE]
              IN  IF reading.has_red
                  THEN IF MaterialIconAboveRedText(reading.at) = NoPos
                       THEN CifReturn(f, "False", NoInput)
                       ELSE cif' = [cif EXCEPT
                                !.stack = CifSetTop([f EXCEPT
                                    !.pc = "blue",
                                    !.icon = MaterialIconAboveRedText(reading.at)]),
                                !.input = Click(MaterialIconAboveRedText(reading.at))]
                  ELSE cif' = [cif EXCEPT
                                !.stack = CifSetTop([f EXCEPT !.pc = "confirm"])]
    /\ UNCHANGED <<gen, ert>>
    /\ UNCHANGED notProc

\* lines 334-350: the blue button of the dependency, then the recursive call
CifBlueButton ==
    /\ cif.stack # <<>>
    /\ CifTop.pc = "blue"
    /\ \E blue_button_coords \in {NoPos, BluePos} :
         IF blue_button_coords = NoPos
         THEN CifReturn(CifTop, "False", Press("esc"))
         ELSE cif' = [cif EXCEPT
                        !.stack = Append(CifSetTop([CifTop EXCEPT !.pc = "await"]),
                                         CifFrame(CifTop.depth + 1)),
                        !.input = Click(blue_button_coords)]
    /\ UNCHANGED <<gen, ert>>
    /\ UNCHANGED notProc

\* lines 350-354: success = self.craft_in_factory(..., depth + 1)
CifChildReturned ==
    /\ cif.stack # <<>>
    /\ CifTop.pc = "await"
    /\ cif.ret # "none"
    /\ IF cif.ret = "False"
       THEN /\ CifReturn(CifTop, "False", NoInput)
       ELSE /\ cif' = [cif EXCEPT !.stack = CifSetTop([CifTop EXCEPT !.pc = "confirm"]),
                                  !.ret = "none"]
    /\ UNCHANGED <<gen, ert>>
    /\ UNCHANGED notProc

\* lines 358-361 and 363-366: return self.find_and_click_confirm_button()
CifConfirm ==
    /\ cif.stack # <<>>
    /\ CifTop.pc = "confirm"
    /\ \E at \in ConfirmPlaces : CifReturn(CifTop, "True", Click(at))
    /\ UNCHANGED <<gen, ert>>
    /\ UNCHANGED notProc

NextFactory ==
    \/ CraftInFactory
    \/ CifDetectRed
    \/ CifBlueButton
    \/ CifChildReturned
    \/ CifConfirm

SpecFactory == Init /\ [][NextFactory]_vars /\ WF_vars(NextFactory)

\* C31: craft_in_factory never has more than max_crafting_depth calls at
\* work: the calls are nested at depths 0, 1, 2, ..., a call entered at
\* depth 5 or more returns False without having read the screen or injected
\* an input, and every call of craft_in_factory returns.
C31_CraftDepthBounded ==
    /\ [](/\ \A i \in 1..Len(cif.stack) :
               /\ cif.stack[i].depth = i - 1
               /\ cif.stack[i].depth >= MaxCraftingDepth => ~cif.stack[i].acted
          /\ Cardinality({i \in 1..Len(cif.stack) : cif.stack[i].acted})
               <= MaxCraftingDepth
          /\ \A i \in 1..Len(cif.ended) :
               cif.ended[i].depth >= MaxCraftingDepth =>
                 /\ ~cif.ended[i].acted
                 /\ cif.ended[i].value = "False")
    /\ (cif.result = "running") ~> (cif.result \in {"True", "False"})

\* red text at every level: the call entered at depth 5 has just returned
\* False to the call at depth 4
C31_Witness ==
    /\ cif.ended = <<[depth |-> MaxCraftingDepth, acted |-> FALSE,
                      value |-> "False"]>>
    /\ Len(cif.stack) = MaxCraftingDepth
    /\ cif.ret = "False"

\* C32: has_available_operators returns True exactly when a count was read
\* with occupied < total: it returns False when the count cannot be
\* determined and when all operators are occupied.
C32_UnreadableMeansNone ==
    rd.fn = "has_available_operators" =>
        (rd.out <=> /\ rd.operator_count.known
                    /\ rd.operator_count.occupied < rd.operator_count.total)

\* C33: _fix_ocr_errors repairs "24180" to "24/80" and "T2430" to "72/30",
\* and a text with a '/' or with fewer than 4 characters gets the character
\* substitutions only.
C33_RepairAsDocumented ==
    rd.fn = "_fix_ocr_errors" =>
        /\ rd.text = <<"2", "4", "1", "8", "0">> => rd.out = <<"2", "4", "/", "8", "0">>
        /\ rd.text = <<"T", "2", "4", "3", "0">> => rd.out = <<"7", "2", "/", "3", "0">>
        /\ (HasSlash(rd.text) \/ Len(rd.text) < 4) => rd.out = Substituted(rd.text)

----------------------------------------------------------------------------
(* More claims about the dispatcher and the workflow.                      *)

C35_TrueIffDispatchPath ==
    /\ wpc = "returned" =>
         /\ wresult \in {"True", "False"}
         /\ wresult = "True" <=> (cyc.path = "dispatch" /\ cyc.outcome = "dispatched")
         /\ cyc.outcome = "dispatched" <=> cyc.dispatch_success # "none"
         /\ cyc.outcome \in FailureOutcomes \cup {"generated"} => wresult = "False"
    /\ wpc \in CyclePcs => wresult = "none"

\* the dispatcher dispatched no train and the cycle still returned True
C35_Witness ==
    /\ wpc = "returned"
    /\ cyc.path = "dispatch"
    /\ cyc.dispatch_success = "False"
    /\ wresult = "True"

----------------------------------------------------------------------------
(* Part VIII, continued: TaskAutomation._dispatch_trains_for_material_-    *)
(* generation (src/task_automation.py lines 312-427) as a call of its own. *)
(* gen holds its arguments and locals; clicks counts the inputs injected   *)
(* and successes the calls of dispatch_train that returned True.           *)

DeliverAmounts == {0, 30, 40, 100, 310}
WarehouseStocks == {0, 10, 50}

\* the comparison with > in place of >=
EnoughStrict(material_generated, material_needed) ==
    material_generated > material_needed

\* lines 375, 403 and 418: material_generated >= material_needed
Enough(material_generated, material_needed) ==
    material_generated >= material_needed

\* lines 326-333
DispatchTrainsForMaterialGeneration ==
    /\ gen.pc = "idle"
    /\ \E deliver_amount \in DeliverAmounts, warehouse_stock \in WarehouseStocks :
         LET material_needed == deliver_amount - warehouse_stock
             g == [pc |-> "collect", deliver_amount |-> deliver_amount,
                   warehouse_stock |-> warehouse_stock,
                   material_needed |-> material_needed,
                   attempt |-> 0, collect_count |-> 0,
                   material_generated |-> 0, train_count |-> 0,
                   successes |-> 0, clicks |-> 0, result |-> "none"]
         IN  gen' = IF material_needed <= 0
                    THEN [g EXCEPT !.pc = "done", !.result = "True"]
                    ELSE g
    /\ UNCHANGED <<cif, ert>>
    /\ UNCHANGED notProc

\* lines 340-360: one pass of the loop over the Collect buttons
GenCollect ==
    /\ gen.pc = "collect"
    /\ IF gen.attempt >= MaxCollectAttempts
       THEN gen' = [gen EXCEPT !.pc = "trains"]
       ELSE \E collect_button \in BOOLEAN :
              gen' = IF collect_button
                     THEN [gen EXCEPT !.attempt = @ + 1, !.collect_count = @ + 1,
                                      !.clicks = @ + 1]
                     ELSE [gen EXCEPT !.pc = "trains"]
    /\ UNCHANGED <<cif, ert>>
    /\ UNCHANGED notProc

\* lines 375-416: one pass of the while loop
GenTrain ==
    /\ gen.pc = "trains"
    /\ IF ~Enough(gen.material_generated, gen.material_needed)
          /\ gen.train_count < MaxTrains
       THEN \E dispatched \in BOOLEAN :
              LET generated == gen.material_generated + AverageTrainCapacity
              IN  gen' = IF dispatched
                         THEN [gen EXCEPT
                                 !.train_count = @ + 1,
                                 !.clicks = @ + 2,
                                 !.successes = @ + 1,
                                 !.material_generated = generated,
                                 !.pc = IF Enough(generated, gen.material_needed)
                                        THEN "result" ELSE "trains"]
                         ELSE [gen EXCEPT !.train_count = @ + 1,
                                          !.clicks = @ + 1,
                                          !.pc = "result"]
       ELSE gen' = [gen EXCEPT !.pc = "result"]
    /\ UNCHANGED <<cif, ert>>
    /\ UNCHANGED notProc

\* lines 418-427
GenReturn ==
    /\ gen.pc = "result"
    /\ gen' = [gen EXCEPT
                 !.pc = "done",
                 !.result = IF Enough(gen.material_generated, gen.material_needed)
                            THEN "True" ELSE "False"]
    /\ UNCHANGED <<cif, ert>>
    /\ UNCHANGED notProc

NextGeneration ==
    \/ DispatchTrainsForMaterialGeneration
    \/ GenCollect
    \/ GenTrain
    \/ GenReturn

SpecGeneration == Init /\ [][NextGeneration]_vars

\* C36: with needed = deliver_amount - warehouse_stock the call returns
\* True without an input when needed <= 0; otherwise it stops at the first
\* failed dispatch or after 10 trains, returns True exactly when the
\* dispatches that succeeded times the average capacity reach needed, and
\* on True has sent ceil(needed / capacity) trains.
C36_TrainsForDeficit ==
    /\ gen.pc = "done" =>
         /\ gen.material_needed = gen.deliver_amount - gen.warehouse_stock
         /\ gen.material_needed <= 0 =>
              gen.result = "True" /\ gen.clicks = 0 /\ gen.train_count = 0
         /\ gen.material_needed > 0 =>
              /\ gen.result = "True"
                   <=> gen.successes * AverageTrainCapacity >= gen.material_needed
              /\ gen.result = "True" =>
                   /\ gen.train_count = gen.successes
                   /\ gen.train_count
                        = (gen.material_needed + AverageTrainCapacity - 1)
                            \div AverageTrainCapacity
              /\ gen.result = "False" =>
                   \/ gen.train_count = gen.successes + 1
                   \/ gen.train_count = MaxTrains
    /\ gen.pc \in {"collect", "trains", "result", "done"} =>
         /\ gen.train_count <= MaxTrains
         /\ gen.train_count - gen.successes <= 1
         /\ gen.material_generated = gen.successes * AverageTrainCapacity

\* 100 - 10 = 90 units: three trains, all dispatched
C36_Witness ==
    /\ gen.pc = "done"
    /\ gen.material_needed = 90
    /\ gen.train_count = 3
    /\ gen.result = "True"

\* C37: for no text do check_trains_available_by_text and
\* check_all_trains_used both return True.
C37_PredicatesExclusive ==
    rd.fn = "status" => ~(rd.available /\ rd.used)

\* two matches are duplicates of each other: lines 281
CloseMatches(a, b) ==
    /\ Abs(a.x - b.x) < DuplicateDistance
    /\ Abs(a.y - b.y) < DuplicateDistance

InSeq(e, seq) == \E i \in 1..Len(seq) : seq[i] = e

\* the candidates of the recorded call, and those its duplicate pass keeps
FeatureCallCandidates ==
    FeatureMatches(loc.d, loc.region, loc.template, loc.locations)
FeatureCallKept == UniqueMatches(SortByConfidence(FeatureCallCandidates), <<>>)

\* C38, as stated: _find_material_with_features returns at most 5 matches,
\* no two of them closer than 30 px on both axes, and every candidate that
\* removed as a duplicate lies within that distance of a returned match of
\* at least its confidence.
C38_ReturnedDominate ==
    (loc.fn = "_find_material_with_features" /\ loc.out.kind = "list"
     /\ loc.template.loaded) =>
        LET returned == loc.out.matches
        IN  /\ Len(returned) <= MaxUniqueMatches
            /\ \A i, j \in 1..Len(returned) :
                 i # j => ~CloseMatches(returned[i], returned[j])
            /\ \A i \in 1..Len(FeatureCallCandidates) :
                 LET c == FeatureCallCandidates[i]
                 IN  ~InSeq(c, FeatureCallKept) =>
                       \E k \in 1..Len(returned) :
                         /\ CloseMatches(c, returned[k])
                         /\ returned[k].confidence >= c.confidence

\* C38, amended: the duplicate pass keeps matches no two of which are closer
\* than 30 px on both axes, every candidate it removes lies within that
\* distance of a kept match of at least its confidence, and the function
\* returns the kept matches of highest confidence, at most 5 of them.
C38_KeptDominate ==
    (loc.fn = "_find_material_with_features" /\ loc.out.kind = "list"
     /\ loc.template.loaded) =>
        LET returned == loc.out.matches
            kept == FeatureCallKept
        IN  /\ Len(returned) = Min(MaxUniqueMatches, Len(kept))
            /\ \A i \in 1..Len(returned) : returned[i] = kept[i]
            /\ \A i \in 1..Len(kept) : InSeq(kept[i], FeatureCallCandidates)
            /\ \A i, j \in 1..Len(kept) :
                 /\ i < j => kept[i].confidence >= kept[j].confidence
                 /\ i # j => ~CloseMatches(kept[i], kept[j])
            /\ \A i \in 1..Len(FeatureCallCandidates) :
                 LET c == FeatureCallCandidates[i]
                 IN  ~InSeq(c, kept) =>
                       \E k \in 1..Len(kept) :
                         /\ CloseMatches(c, kept[k])
                         /\ kept[k].confidence >= c.confidence

\* nine candidates in six groups: six are kept, five returned
C38_Witness ==
    /\ loc.fn = "_find_material_with_features"
    /\ loc.out.kind = "list"
    /\ Len(loc.locations) = 9
    /\ Len(FeatureCallKept) = 6
    /\ Len(loc.out.matches) = MaxUniqueMatches

\* ---- explore_recipe_tree: src/crafting_tree_navigator.py lines 75-118 ----
\* ert.frames is the call stack of explore_recipe_tree, ert.recipe_stack is
\* self.recipe_stack (line 29: empty after construction); a frame records
\* current_depth, the length of recipe_stack at its entry, the number of
\* missing resources it found and its position in the loop of line 101.

MaxExploreDepth == 3
MaxMissing == 2

ErtFrame(current_depth, entry_len) ==
    [current_depth |-> current_depth, entry_len |-> entry_len,
     missing |-> 0, i |-> 0, pc |-> "enter"]

ErtTop == ert.frames[Len(ert.frames)]

\* a return of the innermost call: lines 88, 96, 118
ErtReturn ==
    LET rest == SubSeq(ert.frames, 1, Len(ert.frames) - 1)
    IN  [ert EXCEPT
           !.frames = rest,
           !.pc = IF rest = <<>> THEN "done" ELSE "running",
           !.ended = [current_depth |-> ErtTop.current_depth,
                      entry_len |-> ErtTop.entry_len,
                      exit_len |-> Len(ert.recipe_stack)]]

ErtSetTop(f) == [ert EXCEPT !.frames[Len(ert.frames)] = f]

\* the outermost call on a fresh navigator: lines 127, 132, 178
ExploreRecipeTree ==
    /\ ert.pc = "idle"
    /\ \E max_depth \in 1..MaxExploreDepth :
         ert' = [ert EXCEPT !.pc = "running",
                            !.max_depth = max_depth,
                            !.frames = <<ErtFrame(0, Len(ert.recipe_stack))>>]
    /\ UNCHANGED <<cif, gen>>
    /\ UNCHANGED notProc

\* lines 86-98: the depth test and find_missing_resources
ErtEnter ==
    /\ ert.pc = "running"
    /\ ErtTop.pc = "enter"
    /\ IF ErtTop.current_depth >= ert.max_depth
       THEN ert' = ErtReturn
       ELSE \E missing \in 0..MaxMissing :
              IF missing = 0
              THEN ert' = ErtReturn
              ELSE ert' = ErtSetTop([ErtTop EXCEPT !.missing = missing,
                                                   !.i = 1, !.pc = "loop"])
    /\ UNCHANGED <<cif, gen>>
    /\ UNCHANGED notProc

\* lines 101-109: click the resource, push it, call one level deeper;
\* line 118 when the loop is exhausted
ErtExplore ==
    /\ ert.pc = "running"
    /\ ErtTop.pc = "loop"
    /\ IF ErtTop.i > ErtTop.missing
       THEN ert' = ErtReturn
       ELSE LET pushed == Append(ert.recipe_stack, ErtTop.i)
            IN  ert' = [ert EXCEPT
                          !.recipe_stack = pushed,
                          !.frames = Append(
                              SubSeq(ert.frames, 1, Len(ert.frames) - 1)
                                \o <<[ErtTop EXCEPT !.pc = "back"]>>,
                              ErtFrame(ErtTop.current_depth + 1, Len(pushed)))]
    /\ UNCHANGED <<cif, gen>>
    /\ UNCHANGED notProc

\* lines 112-116: go_back (lines 49-61) finds the X button or does not
ErtGoBack ==
    /\ ert.pc = "running"
    /\ ErtTop.pc = "back"
    /\ \E went_back \in BOOLEAN :
         IF went_back
         THEN ert' = [ErtSetTop([ErtTop EXCEPT !.i = ErtTop.i + 1,
                                               !.pc = "loop"])
                        EXCEPT !.recipe_stack =
                                 SubSeq(ert.recipe_stack, 1,
                                        Len(ert.recipe_stack) - 1)]
         ELSE ert' = ErtReturn
    /\ UNCHANGED <<cif, gen>>
    /\ UNCHANGED notProc

NextExplore ==
    \/ ExploreRecipeTree
    \/ ErtEnter
    \/ ErtExplore
    \/ ErtGoBack

SpecExplore == Init /\ [][NextExplore]_vars

\* C39: in explore_recipe_tree the length of recipe_stack equals
\* current_depth at every entry to the function, so it never exceeds
\* max_depth, and on return it equals the length at entry, whatever go_back
\* answers.
C39_StackMirrorsDepth ==
    /\ \A k \in 1..Len(ert.frames) :
         ert.frames[k].entry_len = ert.frames[k].current_depth
    /\ ert.pc # "idle" => Len(ert.recipe_stack) <= ert.max_depth
    /\ ert.ended # NoEnded => ert.ended.exit_len = ert.ended.entry_len

====
